---- MODULE Spec2Model ----
(***************************************************************************)
(* Trip-planning engine of the shuttle backend (src/main.py,               *)
(* src/harvard_gtfs.py): bounded multi-path search, route compression,     *)
(* display merge, vehicle position history and the route-graph caches.     *)
(* Each component has its own specification over the shared variables;     *)
(* the variables of the other components stay at their initial values.     *)
(***************************************************************************)
EXTENDS Integers, Sequences, FiniteSets, TLC

VARIABLES
    \* ---- PathFinder (find_k_paths / find_k_paths_harvard) ----
    variant,          \* "passio": find_k_paths, "harvard": find_k_paths_harvard
    graph,            \* adjacency: stop id -> sequence of edges [to, route_id]
    origin, dest, k, max_depth, max_transfers,
    queue,            \* deque of (curr, path_nodes, path_edges, last_rid, transfers)
    results,          \* accepted paths, each [nodes, edges]
    seen_signatures,  \* set of signature strings
    pf_pc,            \* "start", "loop", "done"
    \* ---- SegmentCompressor (compress_path_by_route) ----
    path_stop_ids,    \* the path's stop ids
    edges,            \* the path's edges (from, to, route id)
    rid_to_canonical, \* [is_none, entries]: Python None, or the dict entries
                      \* (normalised route id -> route name, None: no such key)
    segments,         \* output: [route_id, start_stop_index, end_stop_index]
    current_route, segment_start_idx,
    edge_idx,         \* 0-based index of the next edge of the for loop
    cmp_pc,           \* "start", "loop", "done"
    \* ---- display merge (merge_segments_for_display) ----
    display_segments, \* the argument of the first call
    merged,           \* the list being built by the first call
    seg_idx,          \* position in display_segments of the loop's next seg
    merged_once,      \* merge_segments_for_display(S)
    merged_twice,     \* merge_segments_for_display(merge_segments_for_display(S))
    mrg_pc,           \* "start", "loop", "returned", "done"
    \* ---- vehicle position history (enrich_routes_with_next_bus) ----
    VEHICLE_STATE,    \* (system, vehicle) key -> list object id, 0: no entry
    list_heap,        \* list objects: object id -> sequence of samples
    now,              \* datetime.now(), in ticks
    pass_key,         \* per enrichment pass: key of its best_vehicle
    prev_states,      \* per enrichment pass: the list object its local names
    pass_pc,          \* per pass: "idle", "got", "appended", "trimmed", "done"
    \* ---- route-graph caches (get_route_graph, get_harvard_graph) ----
    ROUTE_GRAPH_CACHE,     \* system id -> cached graph object id, 0: no entry
    harvard_graph_cache,   \* _harvard_graph_cache: graph object id, 0: None
    graph_lock,            \* _graph_lock: the caller holding it, 0: free
    graphs_built,          \* graph objects built so far, each [system]
    call_system,           \* per caller: the system id of its request
    call_cached,           \* per caller: its local "cached"
    call_result,           \* per caller: the graph object returned
    call_pc,               \* per caller: position in the function called
    \* ---- route-geometry memo (get_route_geometry) ----
    ROUTE_GEOMETRY_CACHE,  \* the keys (stop-id tuples, numbered) that have an entry
    geo_result,            \* what the last call returned: a key's data, 0: None
    \* ---- speed smoothing (enrich_routes_with_next_bus, lines 921-940) ----
    samples,               \* prev_states after the append and trim: <<[x, t], ...>>
    total_dist,            \* metres summed over the qualifying pairs
    total_dt,              \* tenths of a second summed over the qualifying pairs
    speed_ms,              \* [num, den]: the speed num/den in m/s; den = 0: None
    speed_source,          \* "cache" or "fallback"
    spd_pc,                \* "idle", "samples" or "done"
    \* ---- next-bus enrichment within one request (enrich_routes_with_next_bus) ----
    nb_candidates,         \* the vehicles of the route in this request
    next_bus_cache,        \* request-level cache: (route key, boarding stop id) -> payload
    nb_route,              \* the route dict of the last call: its key and stop list
    next_bus,              \* r["next_bus"] of the last call
    nb_trace,              \* what the calls of the request did (see Traced)
    nb_pc,                 \* "idle", "request" (no call yet) or "returned"
    \* ---- polyline slicing (slice_shape_to_segment) ----
    shape_coords,          \* the shape: a sequence of points (metres along a line)
    start_stop,            \* the boarding stop's coordinates
    end_stop,              \* the alighting stop's coordinates
    sliced,                \* the returned polyline
    shp_pc,                \* "idle", "call" or "done"
    \* ---- final selection (select_best_candidate) ----
    candidates,            \* the enriched candidates handed to the function
    selected,              \* the candidate returned
    sel_pc,                \* "idle", "call" or "done"
    \* ---- one /trip request (api_trip) ----
    s_nt,                  \* skeletons of plan_base_no_transfer_trip
    s_tx,                  \* skeletons of plan_base_transfer_trip (<<>> if not called)
    all_skeletons,         \* the skeleton set, numbered, sorted from phase 2 on
    top_skeletons,         \* all_skeletons[:K]
    enrich_idx,            \* position of the enrichment loop in top_skeletons
    enriched_candidates,   \* results of the enrichments that returned
    raised,                \* ids of the skeletons whose enrichment raised
    best_candidate,        \* the candidate the response is built from
    trip_pc,               \* the phase: "idle", "direct", ..., "enrich", "answered", "not_found", "error"
    \* ---- one request served without and with debug (api_trip, phases 3 and 4) ----
    dbg_live,              \* route keys on which a vehicle runs
    dbg_top,               \* top_skeletons, the same for both requests
    dbg_idx,               \* per debug flag: position of the enrichment loop
    dbg_cache,             \* per debug flag: keys of vehicle_indexes["next_bus_cache"]
    dbg_enriched,          \* per debug flag: enriched_candidates
    dbg_answer,            \* per debug flag: best_candidate
    dbg_pc,                \* per debug flag: "idle", "enrich", "answered" or "not_found"
    \* ---- walk-modified planning (plan_walk_modified_trip) ----
    origin_near,           \* number of stops within MAX_WALK_M of the origin
    dest_near,             \* number of stops within MAX_WALK_M of the destination
    o_idx,                 \* position of the outer loop in o_cands
    d_idx,                 \* position of the inner loop in d_cands
    pairs_tried,           \* the counter of evaluated pairs
    wm_pair,               \* the pair evaluated last and what the planners gave for it
    wm_count,              \* len(skeletons)
    wm_pc,                 \* "idle", "loop" or "returned"
    \* ---- stop reconciliation (harvard_mapping) ----
    gtfs_feed,             \* gtfs.stops_by_id in dict order; a stop's id is its position
    p_stop,                \* the live-tracking stop mapped last
    gtfs_id,               \* what map_passiogo_stop_to_gtfs_id returned for it (0 = None)
    passio_to_gtfs,        \* the forward map: per live-tracking stop, its stop id or 0
    gtfs_to_passio,        \* the reverse map: per schedule-feed stop, a stop id or 0
    rec_pc,                \* "idle", "build", "forward_built" or "done"
    \* ---- cached stop maps and their lock (harvard_mapping) ----
    mapping_lock,          \* _mapping_lock: 0 when free, else the thread holding it
    forward_cached,        \* _passio_to_gtfs_cache is not None
    reverse_cached,        \* _gtfs_to_passio_cache is not None
    map_pc                 \* per thread: where it is in the function it called

pfVars == <<variant, graph, origin, dest, k, max_depth, max_transfers,
            queue, results, seen_signatures, pf_pc>>

cmpVars == <<path_stop_ids, edges, rid_to_canonical, segments, current_route,
             segment_start_idx, edge_idx, cmp_pc>>

mrgVars == <<display_segments, merged, seg_idx, merged_once, merged_twice, mrg_pc>>

vehVars == <<VEHICLE_STATE, list_heap, now, pass_key, prev_states, pass_pc>>

gcVars == <<ROUTE_GRAPH_CACHE, harvard_graph_cache, graph_lock, graphs_built,
            call_system, call_cached, call_result, call_pc>>

geoVars == <<ROUTE_GEOMETRY_CACHE, geo_result>>

spdVars == <<samples, total_dist, total_dt, speed_ms, speed_source, spd_pc>>

nbVars == <<nb_candidates, next_bus_cache, nb_route, next_bus, nb_trace, nb_pc>>

shpVars == <<shape_coords, start_stop, end_stop, sliced, shp_pc>>

selVars == <<candidates, selected, sel_pc>>

tripVars == <<s_nt, s_tx, all_skeletons, top_skeletons, enrich_idx, enriched_candidates, raised, best_candidate, trip_pc>>

dbgVars == <<dbg_live, dbg_top, dbg_idx, dbg_cache, dbg_enriched, dbg_answer, dbg_pc>>

wmVars == <<origin_near, dest_near, o_idx, d_idx, pairs_tried, wm_pair, wm_count, wm_pc>>

recVars == <<gtfs_feed, p_stop, gtfs_id, passio_to_gtfs, gtfs_to_passio, rec_pc>>

lkVars == <<mapping_lock, forward_cached, reverse_cached, map_pc>>

vars == <<pfVars, cmpVars, mrgVars, vehVars, gcVars, geoVars, spdVars, nbVars, shpVars, selVars, tripVars, dbgVars, wmVars, recVars, lkVars>>

\* what a step of one component leaves alone: the other components
pfFrame == <<cmpVars, mrgVars, vehVars, gcVars, geoVars, spdVars, nbVars, shpVars, selVars, tripVars, dbgVars, wmVars, recVars, lkVars>>
cmpFrame == <<pfVars, mrgVars, vehVars, gcVars, geoVars, spdVars, nbVars, shpVars, selVars, tripVars, dbgVars, wmVars, recVars, lkVars>>
mrgFrame == <<pfVars, cmpVars, vehVars, gcVars, geoVars, spdVars, nbVars, shpVars, selVars, tripVars, dbgVars, wmVars, recVars, lkVars>>
vehFrame == <<pfVars, cmpVars, mrgVars, gcVars, geoVars, spdVars, nbVars, shpVars, selVars, tripVars, dbgVars, wmVars, recVars, lkVars>>
gcFrame == <<pfVars, cmpVars, mrgVars, vehVars, geoVars, spdVars, nbVars, shpVars, selVars, tripVars, dbgVars, wmVars, recVars, lkVars>>
geoFrame == <<pfVars, cmpVars, mrgVars, vehVars, gcVars, spdVars, nbVars, shpVars, selVars, tripVars, dbgVars, wmVars, recVars, lkVars>>
spdFrame == <<pfVars, cmpVars, mrgVars, vehVars, gcVars, geoVars, nbVars, shpVars, selVars, tripVars, dbgVars, wmVars, recVars, lkVars>>
nbFrame == <<pfVars, cmpVars, mrgVars, vehVars, gcVars, geoVars, spdVars, shpVars, selVars, tripVars, dbgVars, wmVars, recVars, lkVars>>
shpFrame == <<pfVars, cmpVars, mrgVars, vehVars, gcVars, geoVars, spdVars, nbVars, selVars, tripVars, dbgVars, wmVars, recVars, lkVars>>
selFrame == <<pfVars, cmpVars, mrgVars, vehVars, gcVars, geoVars, spdVars, nbVars, shpVars, tripVars, dbgVars, wmVars, recVars, lkVars>>
tripFrame == <<pfVars, cmpVars, mrgVars, vehVars, gcVars, geoVars, spdVars, nbVars, shpVars, selVars, dbgVars, wmVars, recVars, lkVars>>
dbgFrame == <<pfVars, cmpVars, mrgVars, vehVars, gcVars, geoVars, spdVars, nbVars, shpVars, selVars, tripVars, wmVars, recVars, lkVars>>
wmFrame == <<pfVars, cmpVars, mrgVars, vehVars, gcVars, geoVars, spdVars, nbVars, shpVars, selVars, tripVars, dbgVars, recVars, lkVars>>
recFrame == <<pfVars, cmpVars, mrgVars, vehVars, gcVars, geoVars, spdVars, nbVars, shpVars, selVars, tripVars, dbgVars, wmVars, lkVars>>
lkFrame == <<pfVars, cmpVars, mrgVars, vehVars, gcVars, geoVars, spdVars, nbVars, shpVars, selVars, tripVars, dbgVars, wmVars, recVars>>

\* Python's None
None == "None"

Range(s) == {s[i] : i \in DOMAIN s}

Last(s) == s[Len(s)]

\* All sequences over S of length at most n
SeqUpTo(S, n) == UNION {[1..m -> S] : m \in 0..n}

(***************************************************************************)
(* PathFinder                                                              *)
(***************************************************************************)

\* ---- bounds of the explored inputs ----
MaxEdges == 3
MaxK == 2
MaxDepth == 2
MaxTransferCap == 1

Stops == {"a", "b", "c"}
Routes == {"r1", "r2"}

\* Input edges (from, to, route). The searches start at stop "a" and the far
\* destination is "c"; edges leaving "c" are never read by such a search.
EdgeKinds == [from : Stops \ {"c"}, to : Stops, route_id : Routes]

\* build_route_graph appends one edge dict per consecutive stop pair of a
\* route to graph[sid1]; a stop listed at several positions of a route gives
\* duplicate and self edges, so any edge list is a possible live graph.
RECURSIVE PassioGraphOf(_)
PassioGraphOf(es) ==
    IF es = <<>> THEN [s \in Stops |-> <<>>]
    ELSE LET g == PassioGraphOf(SubSeq(es, 1, Len(es) - 1))
             e == Last(es)
         IN  [g EXCEPT ![e.from] = Append(@, [to |-> e.to, route_id |-> e.route_id])]

\* _build_harvard_graph: one edge per consecutive stop pair of a trip, kept
\* only if graph[from_stop] has no edge with the same (next stop, route).
HarvardEdgeExists(adj, to, rid) ==
    \E i \in DOMAIN adj : adj[i].to = to /\ adj[i].route_id = rid

RECURSIVE HarvardGraphOf(_)
HarvardGraphOf(es) ==
    IF es = <<>> THEN [s \in Stops |-> <<>>]
    ELSE LET g == HarvardGraphOf(SubSeq(es, 1, Len(es) - 1))
             e == Last(es)
         IN  IF HarvardEdgeExists(g[e.from], e.to, e.route_id) THEN g
             ELSE [g EXCEPT ![e.from] = Append(@, [to |-> e.to, route_id |-> e.route_id])]

\* "-".join(parts)
RECURSIVE Join(_)
Join(parts) ==
    IF parts = <<>> THEN ""
    ELSE IF Len(parts) = 1 THEN parts[1]
    ELSE parts[1] \o "-" \o Join(Tail(parts))

\* sig = "-".join(str(e[2]) for e in new_edges) + ":" + "-".join(new_nodes)
Signature(new_nodes, new_edges) ==
    Join([i \in DOMAIN new_edges |-> new_edges[i][3]]) \o ":" \o Join(new_nodes)

RevisitsIgnored(nxt, path_nodes) == FALSE

\* if nxt in path_nodes: continue
Revisits(nxt, path_nodes) == nxt \in Range(path_nodes)

\* new_transfers = transfers (+1 if last_rid is not None and rid != last_rid)
NewTransfers(transfers, last_rid, rid) ==
    IF last_rid # None /\ rid # last_rid THEN transfers + 1 ELSE transfers

OverTransferCapIgnored(new_transfers, cap) == FALSE

\* if new_transfers > max_transfers: continue
OverTransferCap(new_transfers, cap) == new_transfers > cap

IsNewSignatureAlways(sig, seen) == TRUE

\* if sig not in seen_signatures
IsNewSignature(sig, seen) == sig \notin seen

\* if len(path_nodes) > max_depth + 1: continue
TooDeep(path_nodes, depth) == Len(path_nodes) > depth + 1

\* while queue and len(results) < k
LoopCondition(q, res, kk) == q # <<>> /\ Len(res) < kk

\* One pass of "for edge in graph.get(curr, [])" from edge i on, for the
\* popped state st; acc = [q, res, seen] are queue, results, seen_signatures.
RECURSIVE ForEdges(_, _, _, _)
ForEdges(st, es, i, acc) ==
    IF i > Len(es) THEN acc
    ELSE
      LET nxt == es[i].to
          rid == es[i].route_id
          new_transfers == NewTransfers(st.transfers, st.last_rid, rid)
          new_nodes == Append(st.path_nodes, nxt)
          new_edges == Append(st.path_edges, <<st.curr, nxt, rid>>)
          sig == Signature(new_nodes, new_edges)
          acc2 ==
            IF Revisits(nxt, st.path_nodes) THEN acc
            ELSE IF OverTransferCap(new_transfers, max_transfers) THEN acc
            ELSE IF nxt = dest THEN
                   IF IsNewSignature(sig, acc.seen)
                   THEN [acc EXCEPT !.res = Append(@, [nodes |-> new_nodes, edges |-> new_edges]),
                                    !.seen = @ \cup {sig}]
                   ELSE acc
            ELSE [acc EXCEPT !.q = Append(@, [curr |-> nxt, path_nodes |-> new_nodes,
                                               path_edges |-> new_edges, last_rid |-> rid,
                                               transfers |-> new_transfers])]
      IN ForEdges(st, es, i + 1, acc2)

PfInit ==
    /\ variant \in {"passio", "harvard"}
    /\ \E es \in SeqUpTo(EdgeKinds, MaxEdges) :
          graph = IF variant = "passio" THEN PassioGraphOf(es) ELSE HarvardGraphOf(es)
    /\ origin = "a"
    /\ dest \in {"a", "c"}
    /\ k \in 1..MaxK
    /\ max_depth \in 1..MaxDepth
    /\ max_transfers \in 0..MaxTransferCap
    /\ queue = <<>>
    /\ results = <<>>
    /\ seen_signatures = {}
    /\ pf_pc = "start"

pfInputs == <<variant, graph, origin, dest, k, max_depth, max_transfers>>

SearchTrivialEmpty(v) ==
    /\ variant = v
    /\ pf_pc = "start"
    /\ origin = dest
    /\ results' = <<>>
    /\ pf_pc' = "done"
    /\ UNCHANGED <<pfInputs, queue, seen_signatures>>
    /\ UNCHANGED pfFrame

\* if origin == dest: return [([origin], [])]
SearchTrivial(v) ==
    /\ variant = v
    /\ pf_pc = "start"
    /\ origin = dest
    /\ results' = << [nodes |-> <<origin>>, edges |-> <<>>] >>
    /\ pf_pc' = "done"
    /\ UNCHANGED <<pfInputs, queue, seen_signatures>>
    /\ UNCHANGED pfFrame

\* queue = deque([(origin, [origin], [], None, 0)]); results = []; seen = set()
SearchBegin(v) ==
    /\ variant = v
    /\ pf_pc = "start"
    /\ origin # dest
    /\ queue' = << [curr |-> origin, path_nodes |-> <<origin>>, path_edges |-> <<>>,
                    last_rid |-> None, transfers |-> 0] >>
    /\ results' = <<>>
    /\ seen_signatures' = {}
    /\ pf_pc' = "loop"
    /\ UNCHANGED pfInputs
    /\ UNCHANGED pfFrame

\* one iteration of the while loop: popleft, depth check, the whole for loop
SearchIter(v) ==
    /\ variant = v
    /\ pf_pc = "loop"
    /\ LoopCondition(queue, results, k)
    /\ LET st == Head(queue)
           acc0 == [q |-> Tail(queue), res |-> results, seen |-> seen_signatures]
           acc == IF TooDeep(st.path_nodes, max_depth) THEN acc0
                  ELSE ForEdges(st, graph[st.curr], 1, acc0)
       IN /\ queue' = acc.q
          /\ results' = acc.res
          /\ seen_signatures' = acc.seen
    /\ pf_pc' = "loop"
    /\ UNCHANGED pfInputs
    /\ UNCHANGED pfFrame

\* the loop condition fails: return results
SearchReturn(v) ==
    /\ variant = v
    /\ pf_pc = "loop"
    /\ ~LoopCondition(queue, results, k)
    /\ pf_pc' = "done"
    /\ UNCHANGED <<pfInputs, queue, results, seen_signatures>>
    /\ UNCHANGED pfFrame

find_k_paths ==
    \/ SearchTrivial("passio") \/ SearchBegin("passio")
    \/ SearchIter("passio") \/ SearchReturn("passio")

\* the same search, on the graph of get_harvard_graph
find_k_paths_harvard ==
    \/ SearchTrivial("harvard") \/ SearchBegin("harvard")
    \/ SearchIter("harvard") \/ SearchReturn("harvard")

PfNext == find_k_paths \/ find_k_paths_harvard

\* the search is not running: its variables rest
PfIdle ==
    /\ variant = "passio"
    /\ graph = [s \in Stops |-> <<>>]
    /\ origin = "a" /\ dest = "a"
    /\ k = 1 /\ max_depth = 1 /\ max_transfers = 0
    /\ queue = <<>> /\ results = <<>> /\ seen_signatures = {}
    /\ pf_pc = "idle"

(***************************************************************************)
(* SegmentCompressor: compress_path_by_route                               *)
(***************************************************************************)

MaxPathEdges == 4

\* raw route ids of edges; "R1" differs from "r1" only by case
RouteIds == {"r1", "R1", "r2"}
RouteNames == {"Red", "Blue"}

\* norm_id: str(x).strip().lower() with characters outside [a-z0-9_-] removed
norm_id(x) == IF x = "R1" THEN "r1" ELSE x

NormIds == {norm_id(r) : r \in RouteIds}

\* rid_to_canonical.get(norm_id(rid), rid) if rid_to_canonical else rid
Canonical(map, rid) ==
    IF map.is_none \/ (\A key \in DOMAIN map.entries : map.entries[key] = None) THEN rid
    ELSE IF map.entries[norm_id(rid)] # None THEN map.entries[norm_id(rid)] ELSE rid

NoCanonicalMap == [is_none |-> TRUE, entries |-> [key \in NormIds |-> None]]

SegmentStartAfterBoundary(idx) == idx + 1

\* segment_start_idx = edge_idx: the new segment starts at the boundary stop
SegmentStartAt(idx) == idx

\* a path of n edges over stops s1..s(n+1) whose edges carry the routes rs
PathStops(n) == [i \in 1..(n + 1) |-> "s" \o ToString(i)]

PathEdges(rs) ==
    [i \in DOMAIN rs |-> <<PathStops(Len(rs))[i], PathStops(Len(rs))[i + 1], rs[i]>>]

CmpInit ==
    /\ \E rs \in SeqUpTo(RouteIds, MaxPathEdges) :
          /\ path_stop_ids = PathStops(Len(rs))
          /\ edges = PathEdges(rs)
    /\ rid_to_canonical \in
          {NoCanonicalMap} \cup
          [is_none : {FALSE}, entries : [NormIds -> RouteNames \cup {None}]]
    /\ segments = <<>>
    /\ current_route = None
    /\ segment_start_idx = 0
    /\ edge_idx = 0
    /\ cmp_pc = "start"

CmpIdle ==
    /\ path_stop_ids = <<>> /\ edges = <<>> /\ rid_to_canonical = NoCanonicalMap
    /\ segments = <<>> /\ current_route = None
    /\ segment_start_idx = 0 /\ edge_idx = 0
    /\ cmp_pc = "idle"

cmpInputs == <<path_stop_ids, edges, rid_to_canonical>>

\* segments = []; if not edges: return segments
CompressEmpty ==
    /\ cmp_pc = "start"
    /\ edges = <<>>
    /\ segments' = <<>>
    /\ cmp_pc' = "done"
    /\ UNCHANGED <<cmpInputs, current_route, segment_start_idx, edge_idx>>
    /\ UNCHANGED cmpFrame

\* current_route = edges[0][2]; segment_start_idx = 0
CompressBegin ==
    /\ cmp_pc = "start"
    /\ edges # <<>>
    /\ segments' = <<>>
    /\ current_route' = edges[1][3]
    /\ segment_start_idx' = 0
    /\ edge_idx' = 0
    /\ cmp_pc' = "loop"
    /\ UNCHANGED cmpInputs
    /\ UNCHANGED cmpFrame

\* one iteration of "for edge_idx, (_, _, rid) in enumerate(edges)"
CompressIter ==
    /\ cmp_pc = "loop"
    /\ edge_idx < Len(edges)
    /\ LET rid == edges[edge_idx + 1][3]
           canon == Canonical(rid_to_canonical, rid)
       IN IF canon # Canonical(rid_to_canonical, current_route)
          THEN /\ segments' = Append(segments,
                                 [route_id |-> current_route,
                                  start_stop_index |-> segment_start_idx,
                                  end_stop_index |-> edge_idx])
               /\ segment_start_idx' = SegmentStartAt(edge_idx)
               /\ current_route' = rid
          ELSE UNCHANGED <<segments, segment_start_idx, current_route>>
    /\ edge_idx' = edge_idx + 1
    /\ cmp_pc' = "loop"
    /\ UNCHANGED cmpInputs
    /\ UNCHANGED cmpFrame

\* after the loop: the last segment goes to the final stop; return segments
CompressFinish ==
    /\ cmp_pc = "loop"
    /\ edge_idx = Len(edges)
    /\ segments' = Append(segments,
                          [route_id |-> current_route,
                           start_stop_index |-> segment_start_idx,
                           end_stop_index |-> Len(path_stop_ids) - 1])
    /\ cmp_pc' = "done"
    /\ UNCHANGED <<cmpInputs, current_route, segment_start_idx, edge_idx>>
    /\ UNCHANGED cmpFrame

CmpNext == CompressEmpty \/ CompressBegin \/ CompressIter \/ CompressFinish

(***************************************************************************)
(* Display merge: same_display_line, merge_segments_for_display            *)
(***************************************************************************)

MaxSegments == 3

LineNames == {None, "A", "B"}
ShortNames == {None, "X"}
SegStops == {"s1", "s2"}

\* a trip segment as build_trip_segments makes it: route names, the end
\* stops and the stop list of the leg, and the live-ETA payload
SegmentOf(name, short, start, end, payload) ==
    [route_name |-> name, short_name |-> short,
     start_stop |-> start, end_stop |-> end,
     stops |-> <<start, end>>, next_bus |-> payload]

SameDisplayLineNoContinuity(seg_a, seg_b) ==
    IF seg_a.route_name = None \/ seg_b.route_name = None THEN FALSE
    ELSE IF seg_a.route_name # seg_b.route_name THEN FALSE
    ELSE IF seg_a.short_name # seg_b.short_name THEN FALSE
    ELSE TRUE

\* same_display_line(seg_a, seg_b)
same_display_line(seg_a, seg_b) ==
    IF seg_a.route_name = None \/ seg_b.route_name = None THEN FALSE
    ELSE IF seg_a.route_name # seg_b.route_name THEN FALSE
    ELSE IF seg_a.short_name # seg_b.short_name THEN FALSE
    ELSE IF seg_a.end_stop # seg_b.start_stop THEN FALSE
    ELSE TRUE

\* last["end_stop"] = seg["end_stop"]; last["stops"].extend(seg["stops"][1:])
ExtendLast(last, seg) ==
    [last EXCEPT !.end_stop = seg.end_stop,
                 !.stops = @ \o Tail(seg.stops)]

MergeStepKeepsSeg(acc, seg) ==
    IF same_display_line(Last(acc), seg)
    THEN Append([acc EXCEPT ![Len(acc)] = ExtendLast(@, seg)], seg)
    ELSE Append(acc, seg)

\* the body of "for seg in segments[1:]" on the list merged so far
MergeStep(acc, seg) ==
    IF same_display_line(Last(acc), seg)
    THEN [acc EXCEPT ![Len(acc)] = ExtendLast(@, seg)]
    ELSE Append(acc, seg)

RECURSIVE MergeFrom(_, _, _)
MergeFrom(acc, segs, i) ==
    IF i > Len(segs) THEN acc
    ELSE MergeFrom(MergeStep(acc, segs[i]), segs, i + 1)

\* merge_segments_for_display(segments), the whole call
merge_segments_for_display(segs) ==
    IF segs = <<>> THEN segs
    ELSE MergeFrom(<<segs[1]>>, segs, 2)

MrgInit ==
    /\ \E n \in 0..MaxSegments :
         \E names \in [1..n -> LineNames], shorts \in [1..n -> ShortNames],
            starts \in [1..n -> SegStops], ends \in [1..n -> SegStops] :
            display_segments =
               [i \in 1..n |-> SegmentOf(names[i], shorts[i], starts[i], ends[i], i)]
    /\ merged = <<>>
    /\ seg_idx = 1
    /\ merged_once = <<>>
    /\ merged_twice = <<>>
    /\ mrg_pc = "start"

MrgIdle ==
    /\ display_segments = <<>> /\ merged = <<>> /\ seg_idx = 1
    /\ merged_once = <<>> /\ merged_twice = <<>>
    /\ mrg_pc = "idle"

\* if not segments: return segments
MergeEmpty ==
    /\ mrg_pc = "start"
    /\ display_segments = <<>>
    /\ merged_once' = display_segments
    /\ mrg_pc' = "returned"
    /\ UNCHANGED <<display_segments, merged, seg_idx, merged_twice>>
    /\ UNCHANGED mrgFrame

\* merged = [segments[0]]
MergeBegin ==
    /\ mrg_pc = "start"
    /\ display_segments # <<>>
    /\ merged' = <<display_segments[1]>>
    /\ seg_idx' = 2
    /\ mrg_pc' = "loop"
    /\ UNCHANGED <<display_segments, merged_once, merged_twice>>
    /\ UNCHANGED mrgFrame

\* one iteration of "for seg in segments[1:]"
MergeIter ==
    /\ mrg_pc = "loop"
    /\ seg_idx <= Len(display_segments)
    /\ merged' = MergeStep(merged, display_segments[seg_idx])
    /\ seg_idx' = seg_idx + 1
    /\ mrg_pc' = "loop"
    /\ UNCHANGED <<display_segments, merged_once, merged_twice>>
    /\ UNCHANGED mrgFrame

\* return merged
MergeReturn ==
    /\ mrg_pc = "loop"
    /\ seg_idx > Len(display_segments)
    /\ merged_once' = merged
    /\ mrg_pc' = "returned"
    /\ UNCHANGED <<display_segments, merged, seg_idx, merged_twice>>
    /\ UNCHANGED mrgFrame

\* a second call, on the list the first call returned
MergeAgain ==
    /\ mrg_pc = "returned"
    /\ merged_twice' = merge_segments_for_display(merged_once)
    /\ mrg_pc' = "done"
    /\ UNCHANGED <<display_segments, merged, seg_idx, merged_once>>
    /\ UNCHANGED mrgFrame

MrgNext == MergeEmpty \/ MergeBegin \/ MergeIter \/ MergeReturn \/ MergeAgain

(***************************************************************************)
(* Vehicle position history: enrich_routes_with_next_bus, lines 910-919    *)
(* Requests run on the server's worker threads, so passes interleave       *)
(* between statements. Lists are objects: VEHICLE_STATE.get returns the     *)
(* stored list itself, and append changes it in place.                     *)
(***************************************************************************)

\* concurrent enrichment passes
MaxPasses == 2

\* if len(prev_states) > 4: prev_states = prev_states[-4:]
MAX_HISTORY == 4

Passes == 1..MaxPasses

\* (system_id, best_vehicle.id)
VehicleKeys == {<<831, "v1">>, <<831, "v2">>}

\* samples left by n earlier passes that ran one after the other
EarlierSamples(n) == [i \in 1..n |-> [by |-> 0, t |-> i]]

\* prev_states[-4:]
LastFour(list) ==
    IF Len(list) > MAX_HISTORY
    THEN SubSeq(list, Len(list) - MAX_HISTORY + 1, Len(list))
    ELSE list

\* list objects 1 and 2 hold what earlier passes left for the two keys; a key
\* no pass has touched has no entry
KeyObject(key) == IF key = <<831, "v1">> THEN 1 ELSE 2

VehInit ==
    /\ \E n1, n2 \in 0..MAX_HISTORY :
          /\ list_heap = <<EarlierSamples(n1), EarlierSamples(n2)>>
          /\ VEHICLE_STATE =
                [key \in VehicleKeys |->
                   IF Len(list_heap[KeyObject(key)]) > 0 THEN KeyObject(key) ELSE 0]
    /\ now = MAX_HISTORY + 1
    /\ pass_key \in [Passes -> VehicleKeys]
    /\ prev_states = [p \in Passes |-> 0]
    /\ pass_pc = [p \in Passes |-> "idle"]

VehIdle ==
    /\ VEHICLE_STATE = [key \in VehicleKeys |-> 0]
    /\ list_heap = <<>>
    /\ now = 0
    /\ pass_key = [p \in Passes |-> <<831, "v1">>]
    /\ prev_states = [p \in Passes |-> 0]
    /\ pass_pc = [p \in Passes |-> "off"]

\* key = (system_id, best_vehicle.id); prev_states = VEHICLE_STATE.get(key, [])
HistoryGet(p) ==
    /\ pass_pc[p] = "idle"
    /\ IF VEHICLE_STATE[pass_key[p]] # 0
       THEN /\ prev_states' = [prev_states EXCEPT ![p] = VEHICLE_STATE[pass_key[p]]]
            /\ UNCHANGED list_heap
       ELSE /\ list_heap' = Append(list_heap, <<>>)
            /\ prev_states' = [prev_states EXCEPT ![p] = Len(list_heap) + 1]
    /\ pass_pc' = [pass_pc EXCEPT ![p] = "got"]
    /\ UNCHANGED <<VEHICLE_STATE, now, pass_key>>
    /\ UNCHANGED vehFrame

\* prev_states.append({"lat": v_lat, "lng": v_lng, "t": datetime.now()})
HistoryAppend(p) ==
    /\ pass_pc[p] = "got"
    /\ list_heap' = [list_heap EXCEPT ![prev_states[p]] = Append(@, [by |-> p, t |-> now])]
    /\ now' = now + 1
    /\ pass_pc' = [pass_pc EXCEPT ![p] = "appended"]
    /\ UNCHANGED <<VEHICLE_STATE, pass_key, prev_states>>
    /\ UNCHANGED vehFrame

\* if len(prev_states) > 4: prev_states = prev_states[-4:]   (a new list)
HistoryTrim(p) ==
    /\ pass_pc[p] = "appended"
    /\ IF Len(list_heap[prev_states[p]]) > MAX_HISTORY
       THEN /\ list_heap' = Append(list_heap, LastFour(list_heap[prev_states[p]]))
            /\ prev_states' = [prev_states EXCEPT ![p] = Len(list_heap) + 1]
       ELSE UNCHANGED <<list_heap, prev_states>>
    /\ pass_pc' = [pass_pc EXCEPT ![p] = "trimmed"]
    /\ UNCHANGED <<VEHICLE_STATE, now, pass_key>>
    /\ UNCHANGED vehFrame

\* VEHICLE_STATE[key] = prev_states
HistoryStore(p) ==
    /\ pass_pc[p] = "trimmed"
    /\ VEHICLE_STATE' = [VEHICLE_STATE EXCEPT ![pass_key[p]] = prev_states[p]]
    /\ pass_pc' = [pass_pc EXCEPT ![p] = "done"]
    /\ UNCHANGED <<list_heap, now, pass_key, prev_states>>
    /\ UNCHANGED vehFrame

VehNext ==
    \E p \in Passes :
        HistoryGet(p) \/ HistoryAppend(p) \/ HistoryTrim(p) \/ HistoryStore(p)

\* the stored history of a key, as a sequence of samples
History(key) ==
    IF VEHICLE_STATE[key] = 0 THEN <<>> ELSE list_heap[VEHICLE_STATE[key]]

(***************************************************************************)
(* Route-graph caches: get_route_graph (main.py) for the live-tracking      *)
(* systems, get_harvard_graph (harvard_gtfs.py) for system 831             *)
(***************************************************************************)

\* concurrent requests that need a route graph
MaxCallers == 3

Callers == 1..MaxCallers

HARVARD_SYSTEM == 831

Systems == {HARVARD_SYSTEM, 1068}

\* build_route_graph / _build_harvard_graph makes a new graph object
NewGraph(system) == Append(graphs_built, [system |-> system])

GcInit ==
    /\ ROUTE_GRAPH_CACHE = [sys \in Systems \ {HARVARD_SYSTEM} |-> 0]
    /\ harvard_graph_cache = 0
    /\ graph_lock = 0
    /\ graphs_built = <<>>
    /\ call_system \in [Callers -> Systems]
    /\ call_cached = [c \in Callers |-> 0]
    /\ call_result = [c \in Callers |-> 0]
    /\ call_pc = [c \in Callers |-> "start"]

GcIdle ==
    /\ ROUTE_GRAPH_CACHE = [sys \in Systems \ {HARVARD_SYSTEM} |-> 0]
    /\ harvard_graph_cache = 0
    /\ graph_lock = 0
    /\ graphs_built = <<>>
    /\ call_system = [c \in Callers |-> HARVARD_SYSTEM]
    /\ call_cached = [c \in Callers |-> 0]
    /\ call_result = [c \in Callers |-> 0]
    /\ call_pc = [c \in Callers |-> "off"]

\* cached = ROUTE_GRAPH_CACHE.get(system_id)
RouteGraphRead(c) ==
    /\ call_pc[c] = "start"
    /\ call_system[c] # HARVARD_SYSTEM
    /\ call_cached' = [call_cached EXCEPT ![c] = ROUTE_GRAPH_CACHE[call_system[c]]]
    /\ call_pc' = [call_pc EXCEPT ![c] = "read"]
    /\ UNCHANGED <<ROUTE_GRAPH_CACHE, harvard_graph_cache, graph_lock, graphs_built,
                   call_system, call_result>>
    /\ UNCHANGED gcFrame

\* (cached is not None) return cached
RouteGraphReturnCached(c) ==
    /\ call_pc[c] = "read"
    /\ call_cached[c] # 0
    /\ call_result' = [call_result EXCEPT ![c] = call_cached[c]]
    /\ call_pc' = [call_pc EXCEPT ![c] = "done"]
    /\ UNCHANGED <<ROUTE_GRAPH_CACHE, harvard_graph_cache, graph_lock, graphs_built,
                   call_system, call_cached>>
    /\ UNCHANGED gcFrame

\* if cached is None: graph, stop_by_id = build_route_graph(stops)
RouteGraphBuild(c) ==
    /\ call_pc[c] = "read"
    /\ call_cached[c] = 0
    /\ graphs_built' = NewGraph(call_system[c])
    /\ call_result' = [call_result EXCEPT ![c] = Len(graphs_built) + 1]
    /\ call_pc' = [call_pc EXCEPT ![c] = "built"]
    /\ UNCHANGED <<ROUTE_GRAPH_CACHE, harvard_graph_cache, graph_lock,
                   call_system, call_cached>>
    /\ UNCHANGED gcFrame

\* ROUTE_GRAPH_CACHE[system_id] = (graph, stop_by_id); return graph, stop_by_id
RouteGraphStore(c) ==
    /\ call_pc[c] = "built"
    /\ call_system[c] # HARVARD_SYSTEM
    /\ ROUTE_GRAPH_CACHE' = [ROUTE_GRAPH_CACHE EXCEPT ![call_system[c]] = call_result[c]]
    /\ call_pc' = [call_pc EXCEPT ![c] = "done"]
    /\ UNCHANGED <<harvard_graph_cache, graph_lock, graphs_built,
                   call_system, call_cached, call_result>>
    /\ UNCHANGED gcFrame

\* if _harvard_graph_cache is not None: return _harvard_graph_cache
HarvardFastPath(c) ==
    /\ call_pc[c] = "start"
    /\ call_system[c] = HARVARD_SYSTEM
    /\ IF harvard_graph_cache # 0
       THEN /\ call_result' = [call_result EXCEPT ![c] = harvard_graph_cache]
            /\ call_pc' = [call_pc EXCEPT ![c] = "done"]
       ELSE /\ call_pc' = [call_pc EXCEPT ![c] = "want_lock"]
            /\ UNCHANGED call_result
    /\ UNCHANGED <<ROUTE_GRAPH_CACHE, harvard_graph_cache, graph_lock, graphs_built,
                   call_system, call_cached>>
    /\ UNCHANGED gcFrame

\* with _graph_lock:
HarvardAcquire(c) ==
    /\ call_pc[c] = "want_lock"
    /\ graph_lock = 0
    /\ graph_lock' = c
    /\ call_pc' = [call_pc EXCEPT ![c] = "locked"]
    /\ UNCHANGED <<ROUTE_GRAPH_CACHE, harvard_graph_cache, graphs_built,
                   call_system, call_cached, call_result>>
    /\ UNCHANGED gcFrame

\* (inside the lock) if _harvard_graph_cache is not None: return it
HarvardRecheck(c) ==
    /\ call_pc[c] = "locked"
    /\ IF harvard_graph_cache # 0
       THEN /\ call_result' = [call_result EXCEPT ![c] = harvard_graph_cache]
            /\ graph_lock' = 0
            /\ call_pc' = [call_pc EXCEPT ![c] = "done"]
       ELSE /\ call_pc' = [call_pc EXCEPT ![c] = "building"]
            /\ UNCHANGED <<call_result, graph_lock>>
    /\ UNCHANGED <<ROUTE_GRAPH_CACHE, harvard_graph_cache, graphs_built,
                   call_system, call_cached>>
    /\ UNCHANGED gcFrame

\* _harvard_graph_cache = _build_harvard_graph(gtfs)
HarvardBuild(c) ==
    /\ call_pc[c] = "building"
    /\ graphs_built' = NewGraph(HARVARD_SYSTEM)
    /\ harvard_graph_cache' = Len(graphs_built) + 1
    /\ call_pc' = [call_pc EXCEPT ![c] = "stored"]
    /\ UNCHANGED <<ROUTE_GRAPH_CACHE, graph_lock, call_system, call_cached, call_result>>
    /\ UNCHANGED gcFrame

\* return _harvard_graph_cache (leaving the with block releases the lock)
HarvardReturn(c) ==
    /\ call_pc[c] = "stored"
    /\ call_result' = [call_result EXCEPT ![c] = harvard_graph_cache]
    /\ graph_lock' = 0
    /\ call_pc' = [call_pc EXCEPT ![c] = "done"]
    /\ UNCHANGED <<ROUTE_GRAPH_CACHE, harvard_graph_cache, graphs_built,
                   call_system, call_cached>>
    /\ UNCHANGED gcFrame

get_route_graph(c) ==
    RouteGraphRead(c) \/ RouteGraphReturnCached(c) \/ RouteGraphBuild(c) \/ RouteGraphStore(c)

get_harvard_graph(c) ==
    \/ HarvardFastPath(c) \/ HarvardAcquire(c) \/ HarvardRecheck(c)
    \/ HarvardBuild(c) \/ HarvardReturn(c)

GcNext == \E c \in Callers : get_route_graph(c) \/ get_harvard_graph(c)

(***************************************************************************)
(* Route-geometry memo: get_route_geometry                                 *)
(* Stop lists are numbered in the order in which they were first cached     *)
(* since the memo was last cleared; a call asks for the list cached last    *)
(* (a hit), for a list that is not cached (it gets the next number), or     *)
(* for a list without two usable points.                                   *)
(***************************************************************************)

\* if len(ROUTE_GEOMETRY_CACHE) > 1000: ROUTE_GEOMETRY_CACHE.clear()
GEOMETRY_CACHE_LIMIT == 1000

\* the memo is cleared before an insertion when it holds more than the limit
MustClear(cache) == Cardinality(cache) > GEOMETRY_CACHE_LIMIT

GeoInit ==
    /\ ROUTE_GEOMETRY_CACHE = {}
    /\ geo_result = 0

GeoIdle ==
    /\ ROUTE_GEOMETRY_CACHE = {}
    /\ geo_result = 0

\* if not stops: return None;  if len(pts) < 2: return None
GeometryNone ==
    /\ geo_result' = 0
    /\ UNCHANGED ROUTE_GEOMETRY_CACHE
    /\ UNCHANGED geoFrame

\* if sid_tuple in ROUTE_GEOMETRY_CACHE: return ROUTE_GEOMETRY_CACHE[sid_tuple]
GeometryHit ==
    /\ ROUTE_GEOMETRY_CACHE # {}
    /\ geo_result' = Cardinality(ROUTE_GEOMETRY_CACHE)
    /\ UNCHANGED ROUTE_GEOMETRY_CACHE
    /\ UNCHANGED geoFrame

\* a miss: compute data, clear the memo if over the limit, insert, return data
GeometryMiss ==
    /\ LET kept == IF MustClear(ROUTE_GEOMETRY_CACHE) THEN {} ELSE ROUTE_GEOMETRY_CACHE
           key == Cardinality(kept) + 1
       IN /\ ROUTE_GEOMETRY_CACHE' = kept \cup {key}
          /\ geo_result' = key
    /\ UNCHANGED geoFrame

GeoNext == GeometryNone \/ GeometryHit \/ GeometryMiss

(***************************************************************************)
(* Speed smoothing: enrich_routes_with_next_bus, lines 921-940              *)
(* Positions are metres along a line, times are tenths of a second, and a   *)
(* speed is the exact fraction num/den in m/s.                             *)
(***************************************************************************)

SampleXs == {0, 50, 51, 90, 350}
SampleTs == {0, 1, 21, 100}
Samples == [x : SampleXs, t : SampleTs]

\* FALLBACK_SPEED_MS = 5.0, MIN_SPEED_MS_FOR_ETA = 1.0
FALLBACK_SPEED_MS == 5
MIN_SPEED_MS_FOR_ETA == 1

\* the band of the sanity check: 1 <= (d/dt) <= 20, and dt > 0.1
MIN_PLAUSIBLE_MS == 1
MAX_PLAUSIBLE_MS == 20
TenthsPerSecond == 10
MIN_DT_TENTHS == 1

Abs(n) == IF n < 0 THEN 0 - n ELSE n

\* distance_m(p1, p2) on the line; (p2["t"] - p1["t"]).total_seconds() in tenths
PairDist(ps, i) == Abs(ps[i + 1].x - ps[i].x)
PairDt(ps, i) == ps[i + 1].t - ps[i].t

\* the same test without the upper end of the band
PairQualifiesNoUpperBound(d, dt) ==
    /\ dt > MIN_DT_TENTHS
    /\ MIN_PLAUSIBLE_MS * dt <= TenthsPerSecond * d

\* if dt > 0.1 and 1 <= (d/dt) <= 20   (d in metres, dt in tenths of a second)
PairQualifies(d, dt) ==
    /\ dt > MIN_DT_TENTHS
    /\ MIN_PLAUSIBLE_MS * dt <= TenthsPerSecond * d
    /\ TenthsPerSecond * d <= MAX_PLAUSIBLE_MS * dt

\* for i in range(len(prev_states) - 1): ... total_dist += d; total_dt += dt
RECURSIVE SumPairs(_, _, _)
SumPairs(ps, i, acc) ==
    IF i > Len(ps) - 1 THEN acc
    ELSE LET d == PairDist(ps, i)
             dt == PairDt(ps, i)
         IN IF PairQualifies(d, dt)
            THEN SumPairs(ps, i + 1, [dist |-> acc.dist + d, dt |-> acc.dt + dt])
            ELSE SumPairs(ps, i + 1, acc)

Totals(ps) == SumPairs(ps, 1, [dist |-> 0, dt |-> 0])

NoSpeed == [num |-> 0, den |-> 0]
Speed(n) == [num |-> n, den |-> 1]
RatLess(a, b) == a.num * b.den < b.num * a.den
RatEq(a, b) == a.num * b.den = b.num * a.den

\* speed_ms = None; if len >= 2 ... if total_dt > 0: speed_ms = total_dist / total_dt
RawSpeed(ps) ==
    IF Len(ps) >= 2 /\ Totals(ps).dt > 0
    THEN [num |-> TenthsPerSecond * Totals(ps).dist, den |-> Totals(ps).dt]
    ELSE NoSpeed

\* if speed_ms is None or not math.isfinite(speed_ms) or speed_ms < MIN_SPEED_MS_FOR_ETA
NeedsFallback(s) == s = NoSpeed \/ RatLess(s, Speed(MIN_SPEED_MS_FOR_ETA))

NonDecreasingTimes(ps) == \A i \in 1..(Len(ps) - 1) : ps[i].t <= ps[i + 1].t

SpdInit ==
    /\ \E n \in 1..MAX_HISTORY :
         samples \in {ps \in [1..n -> Samples] : NonDecreasingTimes(ps)}
    /\ total_dist = 0
    /\ total_dt = 0
    /\ speed_ms = NoSpeed
    /\ speed_source = None
    /\ spd_pc = "samples"

SpdIdle ==
    /\ samples = <<>>
    /\ total_dist = 0
    /\ total_dt = 0
    /\ speed_ms = NoSpeed
    /\ speed_source = None
    /\ spd_pc = "idle"

\* lines 921-937: the smoothed speed is usable
SmoothSpeedCache ==
    /\ spd_pc = "samples"
    /\ ~NeedsFallback(RawSpeed(samples))
    /\ total_dist' = Totals(samples).dist
    /\ total_dt' = Totals(samples).dt
    /\ speed_ms' = RawSpeed(samples)
    /\ speed_source' = "cache"
    /\ spd_pc' = "done"
    /\ UNCHANGED samples
    /\ UNCHANGED spdFrame

\* lines 921-940: no usable smoothed speed
SmoothSpeedFallback ==
    /\ spd_pc = "samples"
    /\ NeedsFallback(RawSpeed(samples))
    /\ total_dist' = Totals(samples).dist
    /\ total_dt' = Totals(samples).dt
    /\ speed_ms' = Speed(FALLBACK_SPEED_MS)
    /\ speed_source' = "fallback"
    /\ spd_pc' = "done"
    /\ UNCHANGED samples
    /\ UNCHANGED spdFrame

SpdNext == SmoothSpeedCache \/ SmoothSpeedFallback

(***************************************************************************)
(* Next-bus enrichment: enrich_routes_with_next_bus, one route per call      *)
(* (enrich_trip_skeleton passes [payload_route]); the calls of one request   *)
(* share vehicle_indexes, hence the candidates and next_bus_cache.           *)
(* Stops are metres along a line; an ETA is an exact fraction in seconds.    *)
(***************************************************************************)

MaxCandidates == 2

\* NEAR_STOP_METERS = 30
NEAR_STOP_METERS == 30

\* distance_to_boarding_stop_along_chain_m returned None
NoAlong == 0 - 1

StraightDists == {NEAR_STOP_METERS, NEAR_STOP_METERS + 1}
AlongDists == {NoAlong, 10, 500}

\* a vehicle: whether it has coordinates, its straight-line distance to the
\* boarding stop, and what the chain projection gives for it
CandidateKinds ==
    {[has_coords |-> FALSE, straight |-> NEAR_STOP_METERS, along |-> NoAlong]}
    \cup [has_coords : {TRUE}, straight : StraightDists, along : AlongDists]

CandidateLists == UNION {[1..n -> CandidateKinds] : n \in 0..MaxCandidates}

\* route["stops"] of a segment, and the (route key, boarding stop id) of the request
LegStopLists == {<<>>, <<0>>, <<0, 50>>, <<0, 50, 120>>}
CacheKeys == {<<"r1", "s1">>}

\* the histories VEHICLE_STATE can hold for the best vehicle after the append
BoardingHistories ==
    { <<[x |-> 0, t |-> 0]>>,
      <<[x |-> 0, t |-> 0], [x |-> 50, t |-> 100]>>,
      <<[x |-> 50, t |-> 1], [x |-> 90, t |-> 21]>>,
      <<[x |-> 50, t |-> 0], [x |-> 350, t |-> 100]>> }

NoEta == [num |-> 0, den |-> 0]
NoPayload == [is_none |-> TRUE]
EmptyCache == [key \in {} |-> NoPayload]

\* the distance of a vehicle, without the near-stop override
CurrDistNoOverride(c) == IF c.along # NoAlong THEN c.along ELSE c.straight

\* lines 877-889: straight_dist <= NEAR_STOP_METERS gives 0.0, else the chain
\* projection, else (projection None) the straight-line distance
CurrDist(c) ==
    IF c.straight <= NEAR_STOP_METERS THEN 0
    ELSE IF c.along # NoAlong THEN c.along ELSE c.straight

\* lines 860-893: best[1] is the index of best_vehicle (0: None), best[2] is
\* best_dist (meaningful once a vehicle is chosen; float("inf") before)
RECURSIVE BestFrom(_, _, _)
BestFrom(cs, i, best) ==
    IF i > Len(cs) THEN best
    ELSE IF ~cs[i].has_coords THEN BestFrom(cs, i + 1, best)
    ELSE IF best[1] = 0 \/ CurrDist(cs[i]) < best[2]
         THEN BestFrom(cs, i + 1, <<i, CurrDist(cs[i])>>)
         ELSE BestFrom(cs, i + 1, best)

Best(cs) == BestFrom(cs, 1, <<0, 0>>)

\* lines 921-940 on the history of the best vehicle
SpeedUsed(ps) == IF NeedsFallback(RawSpeed(ps)) THEN Speed(FALLBACK_SPEED_MS) ELSE RawSpeed(ps)
SourceUsed(ps) == IF NeedsFallback(RawSpeed(ps)) THEN "fallback" ELSE "cache"

\* lines 950-956: seg_dist over consecutive stops
RECURSIVE SegDist(_, _)
SegDist(stops, i) ==
    IF i > Len(stops) - 1 THEN 0
    ELSE Abs(stops[i + 1] - stops[i]) + SegDist(stops, i + 1)

\* fractions are kept in lowest terms
RECURSIVE Gcd(_, _)
Gcd(a, b) == IF b = 0 THEN a ELSE Gcd(b, a % b)
Reduced(n, m) == [num |-> n \div Gcd(n, m), den |-> m \div Gcd(n, m)]

\* metres / (m/s), and the sum of two times
Over(dist, s) == Reduced(dist * s.den, s.num)
RatAdd(a, b) == Reduced(a.num * b.den + b.num * a.den, a.den * b.den)

\* lines 943-973
Payload(best, stops, ps) ==
    LET s == SpeedUsed(ps)
        eta == IF s.num > 0 THEN Over(best[2], s) ELSE NoEta
        rides == Len(stops) >= 2 /\ s.num > 0
        ride == IF rides THEN Over(SegDist(stops, 1), s) ELSE NoEta
        seg == IF rides /\ eta # NoEta THEN RatAdd(eta, ride) ELSE NoEta
    IN [is_none |-> FALSE, vehicle_id |-> best[1],
        distance_to_boarding_stop_m |-> best[2],
        eta_to_boarding_stop_s |-> eta, ride_eta_s |-> ride, segment_eta_s |-> seg,
        speed_source |-> SourceUsed(ps), speed_ms |-> s]

\* the record of a request's calls: the first result of each pair looked up,
\* and for the last call whether its pair had been looked up before, whether
\* lines 838-973 ran again and whether line 916 appended a history sample
NoTrace == [first |-> EmptyCache, repeated |-> FALSE, recomputed |-> FALSE, appended |-> FALSE]
Traced(key, result, recomputed, appended) ==
    [first |-> IF key \in DOMAIN nb_trace.first THEN nb_trace.first
               ELSE [k2 \in DOMAIN nb_trace.first \cup {key} |->
                        IF k2 = key THEN result ELSE nb_trace.first[k2]],
     repeated |-> key \in DOMAIN nb_trace.first,
     recomputed |-> recomputed, appended |-> appended]

NbInit ==
    /\ nb_candidates \in CandidateLists
    /\ next_bus_cache = EmptyCache
    /\ nb_route = [key |-> <<"r1", "s1">>, stops |-> <<>>]
    /\ next_bus = NoPayload
    /\ nb_trace = NoTrace
    /\ nb_pc = "request"

NbIdle ==
    /\ nb_candidates = <<>>
    /\ next_bus_cache = EmptyCache
    /\ nb_route = [key |-> <<"r1", "s1">>, stops |-> <<>>]
    /\ next_bus = NoPayload
    /\ nb_trace = NoTrace
    /\ nb_pc = "idle"

\* lines 831-836: the key is cached, the cached payload is reused
EnrichCacheHit(key, stops) ==
    /\ nb_pc # "idle"
    /\ key \in DOMAIN next_bus_cache
    /\ nb_route' = [key |-> key, stops |-> stops]
    /\ next_bus' = next_bus_cache[key]
    /\ nb_trace' = Traced(key, next_bus_cache[key], FALSE, FALSE)
    /\ nb_pc' = "returned"
    /\ UNCHANGED <<nb_candidates, next_bus_cache>>
    /\ UNCHANGED nbFrame

\* lines 838-908: no candidate has coordinates
EnrichNoVehicle(key, stops) ==
    /\ nb_pc # "idle"
    /\ key \notin DOMAIN next_bus_cache
    /\ Best(nb_candidates)[1] = 0
    /\ nb_route' = [key |-> key, stops |-> stops]
    /\ next_bus' = NoPayload
    /\ nb_trace' = Traced(key, NoPayload, TRUE, FALSE)
    /\ nb_pc' = "returned"
    /\ UNCHANGED <<nb_candidates, next_bus_cache>>
    /\ UNCHANGED nbFrame

\* lines 838-995: a best vehicle exists; the payload is computed and cached
EnrichVehicle(key, stops, ps) ==
    /\ nb_pc # "idle"
    /\ key \notin DOMAIN next_bus_cache
    /\ Best(nb_candidates)[1] # 0
    /\ LET p == Payload(Best(nb_candidates), stops, ps)
       IN /\ next_bus' = p
          /\ nb_trace' = Traced(key, p, TRUE, TRUE)
          /\ next_bus_cache' = [k2 \in DOMAIN next_bus_cache \cup {key} |->
                                   IF k2 = key THEN p ELSE next_bus_cache[k2]]
    /\ nb_route' = [key |-> key, stops |-> stops]
    /\ nb_pc' = "returned"
    /\ UNCHANGED nb_candidates
    /\ UNCHANGED nbFrame

enrich_routes_with_next_bus ==
    \E key \in CacheKeys, stops \in LegStopLists :
        \/ EnrichCacheHit(key, stops)
        \/ EnrichNoVehicle(key, stops)
        \/ \E ps \in BoardingHistories : EnrichVehicle(key, stops, ps)

NbNext == enrich_routes_with_next_bus

(***************************************************************************)
(* Polyline slicing: slice_shape_to_segment                                 *)
(* A coordinate pair is a position in metres along a line, distance_m is    *)
(* the absolute difference; sequences are 1-based (Python index + 1).       *)
(***************************************************************************)

MaxShapeLen == 4

\* if distance_m(start_pt, end_pt) < 150:  # 150m threshold
LOOP_THRESHOLD_M == 150

PointXs == {0, 100, LOOP_THRESHOLD_M, 1000}
Shapes == UNION {[1..n -> PointXs] : n \in 0..MaxShapeLen}

\* for i, (lat, lon) in enumerate(shape_coords): if d < min_dist: ... idx = i
\* (best = <<idx, min_dist>>; min_dist -1 stands for float('inf'))
RECURSIVE NearestFrom(_, _, _, _)
NearestFrom(shape, x, i, best) ==
    IF i > Len(shape) THEN best[1]
    ELSE IF best[2] < 0 \/ Abs(shape[i] - x) < best[2]
         THEN NearestFrom(shape, x, i + 1, <<i, Abs(shape[i] - x)>>)
         ELSE NearestFrom(shape, x, i + 1, best)

StartIdx(shape, x) == NearestFrom(shape, x, 1, <<1, 0 - 1>>)
EndIdx(shape, x) == NearestFrom(shape, x, 1, <<Len(shape), 0 - 1>>)

\* is_loop: len(shape_coords) > 2 and first and last point closer than 150 m
IsLoop(shape) ==
    /\ Len(shape) > 2
    /\ Abs(shape[1] - shape[Len(shape)]) < LOOP_THRESHOLD_M

\* shape_coords[s:e + 1] in 1-based indices s..e
Slice(shape, s, e) == [i \in 1..(e - s + 1) |-> shape[s + i - 1]]
Reversed(seq) == [i \in 1..Len(seq) |-> seq[Len(seq) + 1 - i]]

\* the reversed slice between the two indices
WrapSliceReversed(shape, s, e) == Reversed(Slice(shape, e, s))

\* shape_coords[start_idx:] + shape_coords[:end_idx + 1]
WrapSlice(shape, s, e) == Slice(shape, s, Len(shape)) \o Slice(shape, 1, e)

\* start_idx, end_idx = end_idx, start_idx; list(reversed(shape_coords[start_idx:end_idx + 1]))
ReverseSlice(shape, s, e) == Reversed(Slice(shape, e, s))

\* if len(sliced) < 2: return [(start_stop), (end_stop)]
AtLeastTwo(seq, a, b) == IF Len(seq) < 2 THEN <<a, b>> ELSE seq

ShpInit ==
    /\ shape_coords \in Shapes
    /\ start_stop \in PointXs
    /\ end_stop \in PointXs
    /\ sliced = <<>>
    /\ shp_pc = "call"

ShpIdle ==
    /\ shape_coords = <<>>
    /\ start_stop = 0
    /\ end_stop = 0
    /\ sliced = <<>>
    /\ shp_pc = "idle"

\* if not shape_coords or len(shape_coords) < 2: return shape_coords
SliceShortShape ==
    /\ shp_pc = "call"
    /\ Len(shape_coords) < 2
    /\ sliced' = shape_coords
    /\ shp_pc' = "done"
    /\ UNCHANGED <<shape_coords, start_stop, end_stop>>
    /\ UNCHANGED shpFrame

\* start_idx <= end_idx: forward along the shape
SliceForward ==
    /\ shp_pc = "call"
    /\ Len(shape_coords) >= 2
    /\ LET s == StartIdx(shape_coords, start_stop)
           e == EndIdx(shape_coords, end_stop)
       IN /\ s <= e
          /\ sliced' = AtLeastTwo(Slice(shape_coords, s, e), start_stop, end_stop)
    /\ shp_pc' = "done"
    /\ UNCHANGED <<shape_coords, start_stop, end_stop>>
    /\ UNCHANGED shpFrame

\* start_idx > end_idx on a loop: wrap around
SliceWrap ==
    /\ shp_pc = "call"
    /\ Len(shape_coords) >= 2
    /\ LET s == StartIdx(shape_coords, start_stop)
           e == EndIdx(shape_coords, end_stop)
       IN /\ s > e
          /\ IsLoop(shape_coords)
          /\ sliced' = AtLeastTwo(WrapSlice(shape_coords, s, e), start_stop, end_stop)
    /\ shp_pc' = "done"
    /\ UNCHANGED <<shape_coords, start_stop, end_stop>>
    /\ UNCHANGED shpFrame

\* start_idx > end_idx, not a loop: swap and reverse
SliceReverse ==
    /\ shp_pc = "call"
    /\ Len(shape_coords) >= 2
    /\ LET s == StartIdx(shape_coords, start_stop)
           e == EndIdx(shape_coords, end_stop)
       IN /\ s > e
          /\ ~IsLoop(shape_coords)
          /\ sliced' = AtLeastTwo(ReverseSlice(shape_coords, s, e), start_stop, end_stop)
    /\ shp_pc' = "done"
    /\ UNCHANGED <<shape_coords, start_stop, end_stop>>
    /\ UNCHANGED shpFrame

slice_shape_to_segment == SliceShortShape \/ SliceForward \/ SliceWrap \/ SliceReverse

ShpNext == slice_shape_to_segment

(***************************************************************************)
(* Final selection: select_best_candidate                                  *)
(* A candidate carries its kind, has_live_bus, num_transfers, total_walk_m  *)
(* and, per segment, next_bus["eta_to_origin_stop"] in seconds (NoSeconds   *)
(* when next_bus or the ETA is None). Tie-break values are in tenths.       *)
(***************************************************************************)

\* K = 3: at most K candidates are enriched
TOP_K == 3

\* return 999  # fallback
FALLBACK_CATEGORY == 999

NoSeconds == 0 - 1
NearestPairWalk == 100
OtherPairWalk == 300

\* candidates the planners can produce: a direct skeleton has one segment and
\* no transfer; the transfer planner yields 0 or 1 transfers (max_transfers=1)
DirectCandidates ==
    [kind : {"base_no_transfer"}, has_live_bus : BOOLEAN, num_transfers : {0},
     total_walk_m : {NearestPairWalk}, segments : {<<NoSeconds>>, <<600>>}]
TransferCandidates ==
    [kind : {"base_transfer"}, has_live_bus : BOOLEAN, num_transfers : {0, 1},
     total_walk_m : {NearestPairWalk}, segments : {<<NoSeconds>>, <<600>>, <<NoSeconds, 300>>}]
WalkCandidates ==
    [kind : {"walk_modified"}, has_live_bus : BOOLEAN, num_transfers : {0, 1},
     total_walk_m : {NearestPairWalk, OtherPairWalk}, segments : {<<NoSeconds>>, <<600>>}]
CandidateRecords == DirectCandidates \cup TransferCandidates \cup WalkCandidates

\* api_trip adds transfer skeletons only when there is no direct skeleton
KindsExclusive(cs) ==
    ~ /\ \E i \in 1..Len(cs) : cs[i].kind = "base_no_transfer"
      /\ \E i \in 1..Len(cs) : cs[i].kind = "base_transfer"

\* def category(c) -> int
Category(c) ==
    IF c.has_live_bus /\ c.num_transfers = 0 /\ c.kind = "base_no_transfer" THEN 1
    ELSE IF c.has_live_bus /\ c.kind = "walk_modified" THEN 2
    ELSE IF c.has_live_bus /\ c.num_transfers >= 1 /\ c.kind = "base_transfer" THEN 3
    ELSE IF ~c.has_live_bus /\ c.num_transfers = 0 /\ c.kind = "base_no_transfer" THEN 4
    ELSE IF ~c.has_live_bus /\ c.kind = "walk_modified" THEN 5
    ELSE IF ~c.has_live_bus /\ c.num_transfers >= 1 /\ c.kind = "base_transfer" THEN 6
    ELSE FALLBACK_CATEGORY

\* eta = 0.0; for seg in c["segments"]: the first ETA that is not None
RECURSIVE RepresentativeEta(_, _)
RepresentativeEta(segs, i) ==
    IF i > Len(segs) THEN 0
    ELSE IF segs[i] # NoSeconds THEN segs[i]
    ELSE RepresentativeEta(segs, i + 1)

\* transfers * 1000.0 + walk * 0.2 + (eta * 0.1), times ten
TieBreaker(c) ==
    c.num_transfers * 10000 + c.total_walk_m * 2 + RepresentativeEta(c.segments, 1)

\* the key (category(c), tie_breaker(c)), compared as Python compares tuples
KeyLess(a, b) ==
    \/ Category(a) < Category(b)
    \/ Category(a) = Category(b) /\ TieBreaker(a) < TieBreaker(b)

\* min(candidates, key=...): the first candidate with the least key
RECURSIVE MinFrom(_, _, _)
MinFrom(cs, i, best) ==
    IF i > Len(cs) THEN best
    ELSE IF KeyLess(cs[i], best) THEN MinFrom(cs, i + 1, cs[i])
    ELSE MinFrom(cs, i + 1, best)

select_best_candidate(cs) == MinFrom(cs, 2, cs[1])

NoCandidate == [kind |-> None]

SelInit ==
    /\ \E n \in 1..TOP_K :
         candidates \in {cs \in [1..n -> CandidateRecords] : KindsExclusive(cs)}
    /\ selected = NoCandidate
    /\ sel_pc = "call"

SelIdle ==
    /\ candidates = <<>>
    /\ selected = NoCandidate
    /\ sel_pc = "idle"

SelectBestCandidate ==
    /\ sel_pc = "call"
    /\ selected' = select_best_candidate(candidates)
    /\ sel_pc' = "done"
    /\ UNCHANGED candidates
    /\ UNCHANGED selFrame

SelNext == SelectBestCandidate

(***************************************************************************)
(* One /trip request: api_trip, phases 1 to 4                              *)
(* The planners' results are inputs; a skeleton carries what ranking and    *)
(* selection read. Scores follow the planners' formulas.                    *)
(***************************************************************************)

MaxDirect == 2
MaxTransferPlans == 1
MaxWalkModified == 3

\* base_score = 0 if has_live else 20000; score = base_score + total_walk * 0.5
DirectScore(live, walk) == (IF live THEN 0 ELSE 20000) + walk \div 2

\* score = (0 if has_live else 10000) + (num_transfers * 500) + (total_walk * 0.5)
TransferScore(live, transfers, walk) ==
    (IF live THEN 0 ELSE 10000) + transfers * 500 + walk \div 2

Skeleton(kind, live, n_segments, transfers, walk, score) ==
    [id |-> 0, kind |-> kind, has_live_vehicle |-> live, num_segments |-> n_segments,
     num_transfers |-> transfers, total_walk_m |-> walk, score |-> score]

\* the paths find_k_paths hands to the transfer planner, as the canonical
\* route name of each edge: the zero-edge path when both ends are one stop
PlannerPaths == {<<>>, <<"Red">>, <<"Red", "Red">>, <<"Red", "Blue">>}

\* len(compress_path_by_route(nodes, edges)): no segment for no edge, else one
\* segment per run of edges with one canonical route
RECURSIVE SegmentCount(_)
SegmentCount(path) ==
    IF path = <<>> THEN 0
    ELSE IF Len(path) = 1 THEN 1
    ELSE SegmentCount(Tail(path)) + (IF path[1] = path[2] THEN 0 ELSE 1)

\* num_transfers = max(0, len(seg_skeletons) - 1)
NumTransfers(n_segments) == IF n_segments > 1 THEN n_segments - 1 ELSE 0

\* has_live is set inside the loop over the segments only
LiveChoices(n_segments) == IF n_segments = 0 THEN {FALSE} ELSE BOOLEAN

\* the TripSkeleton plan_base_transfer_trip builds for one path
TransferSkeleton(kind, path, live, walk) ==
    Skeleton(kind, live, SegmentCount(path), NumTransfers(SegmentCount(path)), walk,
             TransferScore(live, NumTransfers(SegmentCount(path)), walk))

\* what plan_base_no_transfer_trip can return for the nearest stop pair
DirectSkeletons ==
    {Skeleton("base_no_transfer", live, 1, 0, NearestPairWalk, DirectScore(live, NearestPairWalk)) :
        live \in BOOLEAN}
DirectPlans == UNION {[1..n -> DirectSkeletons] : n \in 0..MaxDirect}

\* what plan_base_transfer_trip can return for the nearest stop pair
TransferSkeletons ==
    UNION {{TransferSkeleton("base_transfer", path, live, NearestPairWalk) :
                live \in LiveChoices(SegmentCount(path))} : path \in PlannerPaths}
TransferPlans == UNION {[1..n -> TransferSkeletons] : n \in 0..MaxTransferPlans}

\* what plan_walk_modified_trip can return: skeletons of either planner for
\* other stop pairs, relabelled 'walk_modified'
WalkSkeletons ==
    {Skeleton("walk_modified", live, 1, 0, OtherPairWalk, DirectScore(live, OtherPairWalk)) :
        live \in BOOLEAN}
    \cup
    UNION {{TransferSkeleton("walk_modified", path, live, OtherPairWalk) :
                live \in LiveChoices(SegmentCount(path))} : path \in PlannerPaths}
WalkPlans == UNION {[1..n -> WalkSkeletons] : n \in 0..MaxWalkModified}

\* the skeletons of a request are told apart by their position in all_skeletons
Numbered(seq) == [i \in 1..Len(seq) |-> [seq[i] EXCEPT !.id = i]]

\* the transfer planner is called whatever the direct planner found
TransferAttemptedAlways(direct) == TRUE

\* if not s_nt: s_tx = plan_base_transfer_trip(...)
TransferAttempted(direct) == direct = <<>>

\* all_skeletons.sort(key=lambda x: x.score): stable, lower score first
RECURSIVE InsertByScore(_, _)
InsertByScore(sorted, s) ==
    IF sorted = <<>> THEN <<s>>
    ELSE IF s.score < Last(sorted).score
         THEN Append(InsertByScore(SubSeq(sorted, 1, Len(sorted) - 1), s), Last(sorted))
         ELSE Append(sorted, s)

RECURSIVE SortByScore(_, _)
SortByScore(seq, n) ==
    IF n = 0 THEN <<>> ELSE InsertByScore(SortByScore(seq, n - 1), seq[n])

\* every skeleton is kept
TopAll(sorted) == sorted

\* top_skeletons = all_skeletons[:K]
Top(sorted) == SubSeq(sorted, 1, IF Len(sorted) < TOP_K THEN Len(sorted) ELSE TOP_K)

\* the dict enrich_trip_skeleton returns, as far as selection reads it
Enriched(skel) ==
    [id |-> skel.id, kind |-> skel.kind, has_live_bus |-> skel.has_live_vehicle,
     num_transfers |-> skel.num_transfers, total_walk_m |-> skel.total_walk_m,
     segments |-> [i \in 1..skel.num_segments |-> NoSeconds]]

\* the exception leaves the handler and the request fails
AbortOnFailure == "error"

\* except Exception as e: logger.error(...): the loop goes on
ContinueOnFailure == "enrich"

TripInit ==
    /\ s_nt = <<>>
    /\ s_tx = <<>>
    /\ all_skeletons = <<>>
    /\ top_skeletons = <<>>
    /\ enrich_idx = 1
    /\ enriched_candidates = <<>>
    /\ raised = {}
    /\ best_candidate = NoCandidate
    /\ trip_pc = "direct"

TripIdle ==
    /\ s_nt = <<>>
    /\ s_tx = <<>>
    /\ all_skeletons = <<>>
    /\ top_skeletons = <<>>
    /\ enrich_idx = 1
    /\ enriched_candidates = <<>>
    /\ raised = {}
    /\ best_candidate = NoCandidate
    /\ trip_pc = "idle"

\* lines 2156-2160
PlanDirect ==
    /\ trip_pc = "direct"
    /\ s_nt' \in DirectPlans
    /\ trip_pc' = "transfer"
    /\ UNCHANGED <<s_tx, all_skeletons, top_skeletons, enrich_idx, enriched_candidates,
                   raised, best_candidate>>
    /\ UNCHANGED tripFrame

\* lines 2167-2172: no direct skeleton, the transfer planner runs
PlanTransfer ==
    /\ trip_pc = "transfer"
    /\ TransferAttempted(s_nt)
    /\ s_tx' \in TransferPlans
    /\ trip_pc' = "walk"
    /\ UNCHANGED <<s_nt, all_skeletons, top_skeletons, enrich_idx, enriched_candidates,
                   raised, best_candidate>>
    /\ UNCHANGED tripFrame

\* line 2167: a direct skeleton exists, the transfer planner is not called
SkipTransfer ==
    /\ trip_pc = "transfer"
    /\ ~TransferAttempted(s_nt)
    /\ trip_pc' = "walk"
    /\ UNCHANGED <<s_nt, s_tx, all_skeletons, top_skeletons, enrich_idx,
                   enriched_candidates, raised, best_candidate>>
    /\ UNCHANGED tripFrame

\* lines 2175-2179
PlanWalkModified ==
    /\ trip_pc = "walk"
    /\ \E s_wm \in WalkPlans : all_skeletons' = Numbered(s_nt \o s_tx \o s_wm)
    /\ trip_pc' = "rank"
    /\ UNCHANGED <<s_nt, s_tx, top_skeletons, enrich_idx, enriched_candidates,
                   raised, best_candidate>>
    /\ UNCHANGED tripFrame

\* lines 2181-2185: raise HTTPException(404)
NoSkeletons ==
    /\ trip_pc = "rank"
    /\ all_skeletons = <<>>
    /\ trip_pc' = "not_found"
    /\ UNCHANGED <<s_nt, s_tx, all_skeletons, top_skeletons, enrich_idx,
                   enriched_candidates, raised, best_candidate>>
    /\ UNCHANGED tripFrame

\* lines 2193-2203
RankAndPrune ==
    /\ trip_pc = "rank"
    /\ all_skeletons # <<>>
    /\ all_skeletons' = SortByScore(all_skeletons, Len(all_skeletons))
    /\ top_skeletons' = Top(all_skeletons')
    /\ enrich_idx' = 1
    /\ enriched_candidates' = <<>>
    /\ trip_pc' = "enrich"
    /\ UNCHANGED <<s_nt, s_tx, raised, best_candidate>>
    /\ UNCHANGED tripFrame

\* lines 2205-2211: enrich_trip_skeleton returns
EnrichReturns ==
    /\ trip_pc = "enrich"
    /\ enrich_idx <= Len(top_skeletons)
    /\ enriched_candidates' = Append(enriched_candidates, Enriched(top_skeletons[enrich_idx]))
    /\ enrich_idx' = enrich_idx + 1
    /\ UNCHANGED <<s_nt, s_tx, all_skeletons, top_skeletons, raised, best_candidate, trip_pc>>
    /\ UNCHANGED tripFrame

\* lines 2205-2213: enrich_trip_skeleton raises
EnrichRaises ==
    /\ trip_pc = "enrich"
    /\ enrich_idx <= Len(top_skeletons)
    /\ raised' = raised \cup {top_skeletons[enrich_idx].id}
    /\ enrich_idx' = enrich_idx + 1
    /\ trip_pc' = ContinueOnFailure
    /\ UNCHANGED <<s_nt, s_tx, all_skeletons, top_skeletons, enriched_candidates,
                   best_candidate>>
    /\ UNCHANGED tripFrame

\* lines 2215-2216: raise HTTPException(404, "No enrichable trips found")
NoEnrichable ==
    /\ trip_pc = "enrich"
    /\ enrich_idx > Len(top_skeletons)
    /\ enriched_candidates = <<>>
    /\ trip_pc' = "not_found"
    /\ UNCHANGED <<s_nt, s_tx, all_skeletons, top_skeletons, enrich_idx,
                   enriched_candidates, raised, best_candidate>>
    /\ UNCHANGED tripFrame

\* lines 2223-2269
Answer ==
    /\ trip_pc = "enrich"
    /\ enrich_idx > Len(top_skeletons)
    /\ enriched_candidates # <<>>
    /\ best_candidate' = select_best_candidate(enriched_candidates)
    /\ trip_pc' = "answered"
    /\ UNCHANGED <<s_nt, s_tx, all_skeletons, top_skeletons, enrich_idx,
                   enriched_candidates, raised>>
    /\ UNCHANGED tripFrame

api_trip ==
    \/ PlanDirect \/ PlanTransfer \/ SkipTransfer \/ PlanWalkModified
    \/ NoSkeletons \/ RankAndPrune
    \/ EnrichReturns \/ EnrichRaises \/ NoEnrichable \/ Answer

TripNext == api_trip

(***************************************************************************)
(* The debug flag: api_trip phases 3 and 4 with enrich_trip_skeleton and    *)
(* enrich_routes_with_next_bus followed segment by segment. The same top   *)
(* skeletons and vehicle snapshot are served by two requests, one with      *)
(* debug=false and one with debug=true; each request has its own            *)
(* next_bus_cache. A segment is named by its route key (one boarding stop   *)
(* per route); a vehicle on the route gives an ETA of 600 s.                *)
(***************************************************************************)

MaxLegs == 2

DbgKeys == {"r1", "r2"}

\* segment lists of a skeleton: consecutive segments differ in route
LegLists ==
    {legs \in UNION {[1..n -> DbgKeys] : n \in 0..MaxLegs} :
        \A i \in 1..(Len(legs) - 1) : legs[i] # legs[i + 1]}

\* route_to_vehicles.get(str(r_id)) for some segment
LiveOn(legs, live) == \E i \in DOMAIN legs : legs[i] \in live

DbgSkeleton(kind, legs, live, walk, score) ==
    [id |-> 0, kind |-> kind, legs |-> legs, has_live_vehicle |-> live,
     num_transfers |-> NumTransfers(Len(legs)), total_walk_m |-> walk, score |-> score]

\* the skeletons of the three planners over a vehicle snapshot
DbgSkeletons(live) ==
    {DbgSkeleton("base_no_transfer", <<r>>, r \in live, NearestPairWalk,
                 DirectScore(r \in live, NearestPairWalk)) : r \in DbgKeys}
    \cup
    {DbgSkeleton("base_transfer", legs, LiveOn(legs, live), NearestPairWalk,
                 TransferScore(LiveOn(legs, live), NumTransfers(Len(legs)), NearestPairWalk)) :
        legs \in LegLists}
    \cup
    {DbgSkeleton("walk_modified", legs, LiveOn(legs, live), OtherPairWalk,
                 TransferScore(LiveOn(legs, live), NumTransfers(Len(legs)), OtherPairWalk)) :
        legs \in LegLists}

\* top_skeletons: at most K skeletons, by score, direct and transfer exclusive
DbgTops(live) ==
    {t \in UNION {[1..n -> DbgSkeletons(live)] : n \in 1..TOP_K} :
        /\ KindsExclusive(t)
        /\ \A i \in 1..(Len(t) - 1) : t[i].score <= t[i + 1].score}

\* lines 850-852: if debug: for v in vehicles -> NameError
DebugBlockRaises(debug) == debug

\* enrich_trip_skeleton's loop over the segments from segment i on: the
\* cache hit (831-836) comes before the debug block (850-858); a result with
\* a vehicle is stored (976-977), one without is not (895-908)
RECURSIVE EnrichLegs(_, _, _, _, _, _)
EnrichLegs(legs, i, live, cache, debug, acc) ==
    IF i > Len(legs) THEN [raised |-> FALSE, cache |-> cache, segments |-> acc]
    ELSE IF legs[i] \in cache
         THEN EnrichLegs(legs, i + 1, live, cache, debug, Append(acc, 600))
    ELSE IF DebugBlockRaises(debug)
         THEN [raised |-> TRUE, cache |-> cache, segments |-> acc]
    ELSE IF legs[i] \in live
         THEN EnrichLegs(legs, i + 1, live, cache \cup {legs[i]}, debug, Append(acc, 600))
    ELSE EnrichLegs(legs, i + 1, live, cache, debug, Append(acc, NoSeconds))

\* the dict enrich_trip_skeleton returns
DbgEnriched(skel, etas) ==
    [id |-> skel.id, kind |-> skel.kind, has_live_bus |-> skel.has_live_vehicle,
     num_transfers |-> skel.num_transfers, total_walk_m |-> skel.total_walk_m,
     segments |-> etas, routes |-> skel.legs]

DbgInit ==
    /\ dbg_live \in SUBSET DbgKeys
    /\ \E t \in DbgTops(dbg_live) : dbg_top = Numbered(t)
    /\ dbg_idx = [f \in BOOLEAN |-> 1]
    /\ dbg_cache = [f \in BOOLEAN |-> {}]
    /\ dbg_enriched = [f \in BOOLEAN |-> <<>>]
    /\ dbg_answer = [f \in BOOLEAN |-> NoCandidate]
    /\ dbg_pc = [f \in BOOLEAN |-> "enrich"]

DbgIdle ==
    /\ dbg_live = {}
    /\ dbg_top = <<>>
    /\ dbg_idx = [f \in BOOLEAN |-> 1]
    /\ dbg_cache = [f \in BOOLEAN |-> {}]
    /\ dbg_enriched = [f \in BOOLEAN |-> <<>>]
    /\ dbg_answer = [f \in BOOLEAN |-> NoCandidate]
    /\ dbg_pc = [f \in BOOLEAN |-> "idle"]

\* lines 2205-2211: enrich_trip_skeleton returns
DbgEnrichReturns(debug) ==
    /\ dbg_pc[debug] = "enrich"
    /\ dbg_idx[debug] <= Len(dbg_top)
    /\ LET skel == dbg_top[dbg_idx[debug]]
           r == EnrichLegs(skel.legs, 1, dbg_live, dbg_cache[debug], debug, <<>>)
       IN  /\ ~r.raised
           /\ dbg_enriched' = [dbg_enriched EXCEPT ![debug] = Append(@, DbgEnriched(skel, r.segments))]
           /\ dbg_cache' = [dbg_cache EXCEPT ![debug] = r.cache]
    /\ dbg_idx' = [dbg_idx EXCEPT ![debug] = @ + 1]
    /\ UNCHANGED <<dbg_live, dbg_top, dbg_answer, dbg_pc>>
    /\ UNCHANGED dbgFrame

\* lines 2205-2213: enrich_trip_skeleton raises, the skeleton is dropped
DbgEnrichRaises(debug) ==
    /\ dbg_pc[debug] = "enrich"
    /\ dbg_idx[debug] <= Len(dbg_top)
    /\ LET skel == dbg_top[dbg_idx[debug]]
           r == EnrichLegs(skel.legs, 1, dbg_live, dbg_cache[debug], debug, <<>>)
       IN  /\ r.raised
           /\ dbg_cache' = [dbg_cache EXCEPT ![debug] = r.cache]
    /\ dbg_idx' = [dbg_idx EXCEPT ![debug] = @ + 1]
    /\ UNCHANGED <<dbg_live, dbg_top, dbg_enriched, dbg_answer, dbg_pc>>
    /\ UNCHANGED dbgFrame

\* lines 2215-2216: raise HTTPException(404, "No enrichable trips found")
DbgNoEnrichable(debug) ==
    /\ dbg_pc[debug] = "enrich"
    /\ dbg_idx[debug] > Len(dbg_top)
    /\ dbg_enriched[debug] = <<>>
    /\ dbg_pc' = [dbg_pc EXCEPT ![debug] = "not_found"]
    /\ UNCHANGED <<dbg_live, dbg_top, dbg_idx, dbg_cache, dbg_enriched, dbg_answer>>
    /\ UNCHANGED dbgFrame

\* lines 2223-2269
DbgAnswer(debug) ==
    /\ dbg_pc[debug] = "enrich"
    /\ dbg_idx[debug] > Len(dbg_top)
    /\ dbg_enriched[debug] # <<>>
    /\ dbg_answer' = [dbg_answer EXCEPT ![debug] = select_best_candidate(dbg_enriched[debug])]
    /\ dbg_pc' = [dbg_pc EXCEPT ![debug] = "answered"]
    /\ UNCHANGED <<dbg_live, dbg_top, dbg_idx, dbg_cache, dbg_enriched>>
    /\ UNCHANGED dbgFrame

DbgNext ==
    \E debug \in BOOLEAN :
        \/ DbgEnrichReturns(debug)
        \/ DbgEnrichRaises(debug)
        \/ DbgNoEnrichable(debug)
        \/ DbgAnswer(debug)

(***************************************************************************)
(* Walk-modified planning: plan_walk_modified_trip                         *)
(* Nearby stops are numbered by distance; a planner's result is the number  *)
(* of skeletons it returned for the pair.                                   *)
(***************************************************************************)

MaxNearby == 6

MAX_NEARBY_STOPS == 5
MAX_WALK_PAIRS == 10

\* find_nearby_stops(...)[:MAX_NEARBY_STOPS], then origin_candidates[:5]
Candidates(near) == IF near < MAX_NEARBY_STOPS THEN near ELSE MAX_NEARBY_STOPS

\* every pair of candidates is evaluated
PairsNeverExhausted(tried) == FALSE

\* if pairs_tried >= MAX_WALK_PAIRS: return skeletons
PairsExhausted(tried) == tried >= MAX_WALK_PAIRS

\* if not cands_no_tx: cands_tx = plan_base_transfer_trip(...)
TransferTried(direct_found) == direct_found = 0

\* the nested for loops: the next (o, d) after (o, d)
NextPair(o, d) ==
    IF d < Candidates(dest_near) THEN <<o, d + 1>> ELSE <<o + 1, 1>>

\* both loops have a pair left
PairLeft == o_idx <= Candidates(origin_near) /\ d_idx <= Candidates(dest_near)

NoPair == [o |-> 0, d |-> 0, direct |-> 0, transfer |-> 0]

WmInit ==
    /\ origin_near \in 0..MaxNearby
    /\ dest_near \in 0..MaxNearby
    /\ o_idx = 1
    /\ d_idx = 1
    /\ pairs_tried = 0
    /\ wm_pair = NoPair
    /\ wm_count = 0
    /\ wm_pc = "loop"

WmIdle ==
    /\ origin_near = 0
    /\ dest_near = 0
    /\ o_idx = 1
    /\ d_idx = 1
    /\ pairs_tried = 0
    /\ wm_pair = NoPair
    /\ wm_count = 0
    /\ wm_pc = "idle"

\* lines 2034-2039, 2065-2068: one pair, planned directly or by transfer;
\* a planner returns 0 or 1 skeleton here
EvaluatePair ==
    /\ wm_pc = "loop"
    /\ PairLeft
    /\ ~PairsExhausted(pairs_tried)
    /\ \E direct_found \in 0..1, transfer_found \in 0..1 :
         /\ TransferTried(direct_found) \/ transfer_found = 0
         /\ wm_pair' = [o |-> o_idx, d |-> d_idx, direct |-> direct_found,
                        transfer |-> transfer_found]
         /\ wm_count' = wm_count + direct_found + transfer_found
    /\ pairs_tried' = pairs_tried + 1
    /\ o_idx' = NextPair(o_idx, d_idx)[1]
    /\ d_idx' = NextPair(o_idx, d_idx)[2]
    /\ UNCHANGED <<origin_near, dest_near, wm_pc>>
    /\ UNCHANGED wmFrame

\* lines 2028-2029: the cap on pairs
ReturnAtCap ==
    /\ wm_pc = "loop"
    /\ PairLeft
    /\ PairsExhausted(pairs_tried)
    /\ wm_pc' = "returned"
    /\ UNCHANGED <<origin_near, dest_near, o_idx, d_idx, pairs_tried, wm_pair, wm_count>>
    /\ UNCHANGED wmFrame

\* lines 2030-2031: more than MAX_WALK_TIME seconds have passed
ReturnAtTimeBudget ==
    /\ wm_pc = "loop"
    /\ PairLeft
    /\ ~PairsExhausted(pairs_tried)
    /\ wm_pc' = "returned"
    /\ UNCHANGED <<origin_near, dest_near, o_idx, d_idx, pairs_tried, wm_pair, wm_count>>
    /\ UNCHANGED wmFrame

\* line 2070: the loops are through
ReturnAtEnd ==
    /\ wm_pc = "loop"
    /\ ~PairLeft
    /\ wm_pc' = "returned"
    /\ UNCHANGED <<origin_near, dest_near, o_idx, d_idx, pairs_tried, wm_pair, wm_count>>
    /\ UNCHANGED wmFrame

plan_walk_modified_trip ==
    \/ EvaluatePair \/ ReturnAtCap \/ ReturnAtTimeBudget \/ ReturnAtEnd

WmNext == plan_walk_modified_trip

(***************************************************************************)
(* Stop reconciliation: map_passiogo_stop_to_gtfs_id,                      *)
(* build_harvard_passio_to_gtfs_map and the reverse map of                 *)
(* get_gtfs_to_passio_map. Stops lie on a line (metres); a name is a        *)
(* sequence of characters.                                                 *)
(***************************************************************************)

MaxGtfsStops == 2
MaxPassioStops == 2

MAX_MATCH_DISTANCE_M == 100

GtfsXs == {100, 160}
PassioXs == {0, 120, 261}
GtfsNames == {<<"q">>, <<"q", "d">>, <<"x">>}
PassioNames == {<<"q">>, <<"Q", "d">>, <<"q", " ">>}

GtfsStops == [x : GtfsXs, stop_name : GtfsNames]
GtfsFeeds == UNION {[1..n -> GtfsStops] : n \in 0..MaxGtfsStops}
PassioStops == [x : PassioXs, name : PassioNames]

\* str.lower()
Lower(nm) == [i \in DOMAIN nm |-> IF nm[i] = "Q" THEN "q" ELSE nm[i]]

\* str.strip()
RECURSIVE StripLeft(_)
StripLeft(nm) == IF nm # <<>> /\ nm[1] = " " THEN StripLeft(Tail(nm)) ELSE nm

RECURSIVE StripRight(_)
StripRight(nm) ==
    IF nm # <<>> /\ nm[Len(nm)] = " " THEN StripRight(SubSeq(nm, 1, Len(nm) - 1)) ELSE nm

Strip(nm) == StripRight(StripLeft(nm))

\* a in b, for strings
IsSubstring(a, b) == \E i \in 0..(Len(b) - Len(a)) : SubSeq(b, i + 1, i + Len(a)) = a

\* lines 74, 83-87: both names lower-cased and stripped, then either in the other
NameMatch(p_name, stop_name) ==
    \/ IsSubstring(Strip(Lower(p_name)), Strip(Lower(stop_name)))
    \/ IsSubstring(Strip(Lower(stop_name)), Strip(Lower(p_name)))

\* haversine_distance_m, on the line
StopDistance(p, g) == Abs(p.x - g.x)

\* best_gtfs_id = None, best_distance = inf, best_name_match = False
NoBest == [gtfs_id |-> 0, distance |-> 0, name_match |-> FALSE]

\* the nearer candidate is taken whatever the names
TakesNearest(name_match, distance, best) ==
    best.gtfs_id = 0 \/ distance < best.distance

\* lines 90-97: a first name match is taken; otherwise a candidate with the
\* same name_match as the best one is taken if it is nearer (any distance is
\* nearer than the initial inf)
Takes(name_match, distance, best) ==
    \/ name_match /\ ~best.name_match
    \/ name_match = best.name_match /\ (best.gtfs_id = 0 \/ distance < best.distance)

\* lines 76-97: the loop over gtfs.stops_by_id from stop i on
RECURSIVE BestFromStop(_, _, _, _)
BestFromStop(p, feed, i, best) ==
    IF i > Len(feed) THEN best
    ELSE IF StopDistance(p, feed[i]) > MAX_MATCH_DISTANCE_M
         THEN BestFromStop(p, feed, i + 1, best)
    ELSE IF Takes(NameMatch(p.name, feed[i].stop_name), StopDistance(p, feed[i]), best)
         THEN BestFromStop(p, feed, i + 1,
                  [gtfs_id |-> i, distance |-> StopDistance(p, feed[i]),
                   name_match |-> NameMatch(p.name, feed[i].stop_name)])
    ELSE BestFromStop(p, feed, i + 1, best)

map_passiogo_stop_to_gtfs_id(p, feed) == BestFromStop(p, feed, 1, NoBest).gtfs_id

\* {v: k for k, v in passio_to_gtfs.items()}: a later key replaces an earlier
\* one with the same value; stops without a match are not in the dict
RECURSIVE Inverted(_, _, _)
Inverted(forward, i, acc) ==
    IF i > Len(forward) THEN acc
    ELSE IF forward[i] = 0 THEN Inverted(forward, i + 1, acc)
    ELSE Inverted(forward, i + 1, [acc EXCEPT ![forward[i]] = i])

NoStop == [x |-> 0, name |-> <<>>]

RecInit ==
    /\ gtfs_feed \in GtfsFeeds
    /\ p_stop = NoStop
    /\ gtfs_id = 0
    /\ passio_to_gtfs = <<>>
    /\ gtfs_to_passio = <<>>
    /\ rec_pc = "build"

RecIdle ==
    /\ gtfs_feed = <<>>
    /\ p_stop = NoStop
    /\ gtfs_id = 0
    /\ passio_to_gtfs = <<>>
    /\ gtfs_to_passio = <<>>
    /\ rec_pc = "idle"

\* harvard_mapping.py 122-132: one stop of passiogo_stops
MapStop ==
    /\ rec_pc = "build"
    /\ Len(passio_to_gtfs) < MaxPassioStops
    /\ \E p \in PassioStops :
         /\ p_stop' = p
         /\ gtfs_id' = map_passiogo_stop_to_gtfs_id(p, gtfs_feed)
         /\ passio_to_gtfs' = Append(passio_to_gtfs, map_passiogo_stop_to_gtfs_id(p, gtfs_feed))
    /\ UNCHANGED <<gtfs_feed, gtfs_to_passio, rec_pc>>
    /\ UNCHANGED recFrame

\* harvard_mapping.py 139, 177: the forward map is complete and cached
ForwardBuilt ==
    /\ rec_pc = "build"
    /\ rec_pc' = "forward_built"
    /\ UNCHANGED <<gtfs_feed, p_stop, gtfs_id, passio_to_gtfs, gtfs_to_passio>>
    /\ UNCHANGED recFrame

\* harvard_mapping.py 197-198
BuildReverse ==
    /\ rec_pc = "forward_built"
    /\ gtfs_to_passio' = Inverted(passio_to_gtfs, 1, [g \in DOMAIN gtfs_feed |-> 0])
    /\ rec_pc' = "done"
    /\ UNCHANGED <<gtfs_feed, p_stop, gtfs_id, passio_to_gtfs>>
    /\ UNCHANGED recFrame

RecNext == MapStop \/ ForwardBuilt \/ BuildReverse

(***************************************************************************)
(* The cached maps: get_harvard_passio_to_gtfs_map and                     *)
(* get_gtfs_to_passio_map, called with a stop list by several threads.     *)
(* _mapping_lock is a threading.Lock: it is not reentrant. Positions:       *)
(*   f_check, f_lock, f_locked     in get_harvard_passio_to_gtfs_map       *)
(*   r_check, r_lock, r_locked, r_store   in get_gtfs_to_passio_map        *)
(*   rf_check, rf_lock, rf_locked  in get_harvard_passio_to_gtfs_map       *)
(*                                 called at line 197                      *)
(***************************************************************************)

MaxThreads == 3

MapThreads == 1..MaxThreads

\* where a return of get_harvard_passio_to_gtfs_map leads
AfterForward(pc) == IF pc \in {"f_check", "f_locked"} THEN "returned" ELSE "r_store"

\* where the thread stands once it holds the lock
AfterAcquire(pc) ==
    IF pc = "f_lock" THEN "f_locked" ELSE IF pc = "rf_lock" THEN "rf_locked" ELSE "r_locked"

LkInit ==
    /\ mapping_lock = 0
    /\ forward_cached = FALSE
    /\ reverse_cached = FALSE
    /\ map_pc = [t \in MapThreads |-> "ready"]

LkIdle ==
    /\ mapping_lock = 0
    /\ forward_cached = FALSE
    /\ reverse_cached = FALSE
    /\ map_pc = [t \in MapThreads |-> "idle"]

\* a thread calls get_harvard_passio_to_gtfs_map(stops)
CallForward(t) ==
    /\ map_pc[t] = "ready"
    /\ map_pc' = [map_pc EXCEPT ![t] = "f_check"]
    /\ UNCHANGED <<mapping_lock, forward_cached, reverse_cached>>
    /\ UNCHANGED lkFrame

\* a thread calls get_gtfs_to_passio_map(stops)
CallReverse(t) ==
    /\ map_pc[t] = "ready"
    /\ map_pc' = [map_pc EXCEPT ![t] = "r_check"]
    /\ UNCHANGED <<mapping_lock, forward_cached, reverse_cached>>
    /\ UNCHANGED lkFrame

\* lines 164-165: the forward map is cached, return it
ForwardFastPath(t) ==
    /\ map_pc[t] \in {"f_check", "rf_check"}
    /\ forward_cached
    /\ map_pc' = [map_pc EXCEPT ![t] = AfterForward(@)]
    /\ UNCHANGED <<mapping_lock, forward_cached, reverse_cached>>
    /\ UNCHANGED lkFrame

\* line 164: not cached, go on to the lock
ForwardSlowPath(t) ==
    /\ map_pc[t] \in {"f_check", "rf_check"}
    /\ ~forward_cached
    /\ map_pc' = [map_pc EXCEPT ![t] = IF @ = "f_check" THEN "f_lock" ELSE "rf_lock"]
    /\ UNCHANGED <<mapping_lock, forward_cached, reverse_cached>>
    /\ UNCHANGED lkFrame

\* lines 167, 193: with _mapping_lock, which waits until the lock is free
Acquire(t) ==
    /\ map_pc[t] \in {"f_lock", "rf_lock", "r_lock"}
    /\ mapping_lock = 0
    /\ mapping_lock' = t
    /\ map_pc' = [map_pc EXCEPT ![t] = AfterAcquire(@)]
    /\ UNCHANGED <<forward_cached, reverse_cached>>
    /\ UNCHANGED lkFrame

\* lines 168-178: under the lock, return the cached map or build and cache
\* it; leaving the with block releases the lock
ForwardBuild(t) ==
    /\ map_pc[t] \in {"f_locked", "rf_locked"}
    /\ forward_cached' = TRUE
    /\ mapping_lock' = 0
    /\ map_pc' = [map_pc EXCEPT ![t] = AfterForward(@)]
    /\ UNCHANGED reverse_cached
    /\ UNCHANGED lkFrame

\* lines 190-191: the reverse map is cached, return it
ReverseFastPath(t) ==
    /\ map_pc[t] = "r_check"
    /\ reverse_cached
    /\ map_pc' = [map_pc EXCEPT ![t] = "returned"]
    /\ UNCHANGED <<mapping_lock, forward_cached, reverse_cached>>
    /\ UNCHANGED lkFrame

\* line 190: not cached, go on to the lock
ReverseSlowPath(t) ==
    /\ map_pc[t] = "r_check"
    /\ ~reverse_cached
    /\ map_pc' = [map_pc EXCEPT ![t] = "r_lock"]
    /\ UNCHANGED <<mapping_lock, forward_cached, reverse_cached>>
    /\ UNCHANGED lkFrame

\* lines 194-195: cached meanwhile, return it and release the lock
ReverseSecondCheck(t) ==
    /\ map_pc[t] = "r_locked"
    /\ reverse_cached
    /\ mapping_lock' = 0
    /\ map_pc' = [map_pc EXCEPT ![t] = "returned"]
    /\ UNCHANGED <<forward_cached, reverse_cached>>
    /\ UNCHANGED lkFrame

\* line 197: get_harvard_passio_to_gtfs_map is called with the lock held
ReverseCallsForward(t) ==
    /\ map_pc[t] = "r_locked"
    /\ ~reverse_cached
    /\ map_pc' = [map_pc EXCEPT ![t] = "rf_check"]
    /\ UNCHANGED <<mapping_lock, forward_cached, reverse_cached>>
    /\ UNCHANGED lkFrame

\* lines 198-199: invert, cache, return and release the lock
ReverseStore(t) ==
    /\ map_pc[t] = "r_store"
    /\ reverse_cached' = TRUE
    /\ mapping_lock' = 0
    /\ map_pc' = [map_pc EXCEPT ![t] = "returned"]
    /\ UNCHANGED forward_cached
    /\ UNCHANGED lkFrame

\* the steps of a call under way
ThreadRuns(t) ==
    \/ ForwardFastPath(t) \/ ForwardSlowPath(t) \/ Acquire(t) \/ ForwardBuild(t)
    \/ ReverseFastPath(t) \/ ReverseSlowPath(t) \/ ReverseSecondCheck(t)
    \/ ReverseCallsForward(t) \/ ReverseStore(t)

LkNext ==
    \E t \in MapThreads : CallForward(t) \/ CallReverse(t) \/ ThreadRuns(t)

(***************************************************************************)
(* Specifications                                                          *)
(***************************************************************************)

InitPath == PfInit /\ CmpIdle /\ MrgIdle /\ VehIdle /\ GcIdle /\ GeoIdle /\ SpdIdle /\ NbIdle /\ ShpIdle /\ SelIdle /\ TripIdle /\ DbgIdle /\ WmIdle /\ RecIdle /\ LkIdle
SpecPath == InitPath /\ [][PfNext]_vars

InitCompress == CmpInit /\ PfIdle /\ MrgIdle /\ VehIdle /\ GcIdle /\ GeoIdle /\ SpdIdle /\ NbIdle /\ ShpIdle /\ SelIdle /\ TripIdle /\ DbgIdle /\ WmIdle /\ RecIdle /\ LkIdle
SpecCompress == InitCompress /\ [][CmpNext]_vars

InitMerge == MrgInit /\ PfIdle /\ CmpIdle /\ VehIdle /\ GcIdle /\ GeoIdle /\ SpdIdle /\ NbIdle /\ ShpIdle /\ SelIdle /\ TripIdle /\ DbgIdle /\ WmIdle /\ RecIdle /\ LkIdle
SpecMerge == InitMerge /\ [][MrgNext]_vars

InitHistory == VehInit /\ PfIdle /\ CmpIdle /\ MrgIdle /\ GcIdle /\ GeoIdle /\ SpdIdle /\ NbIdle /\ ShpIdle /\ SelIdle /\ TripIdle /\ DbgIdle /\ WmIdle /\ RecIdle /\ LkIdle
SpecHistory == InitHistory /\ [][VehNext]_vars

InitGraphCache == GcInit /\ PfIdle /\ CmpIdle /\ MrgIdle /\ VehIdle /\ GeoIdle /\ SpdIdle /\ NbIdle /\ ShpIdle /\ SelIdle /\ TripIdle /\ DbgIdle /\ WmIdle /\ RecIdle /\ LkIdle
SpecGraphCache == InitGraphCache /\ [][GcNext]_vars

InitGeometry == GeoInit /\ PfIdle /\ CmpIdle /\ MrgIdle /\ VehIdle /\ GcIdle /\ SpdIdle /\ NbIdle /\ ShpIdle /\ SelIdle /\ TripIdle /\ DbgIdle /\ WmIdle /\ RecIdle /\ LkIdle
SpecGeometry == InitGeometry /\ [][GeoNext]_vars

InitSpeed == SpdInit /\ PfIdle /\ CmpIdle /\ MrgIdle /\ VehIdle /\ GcIdle /\ GeoIdle /\ NbIdle /\ ShpIdle /\ SelIdle /\ TripIdle /\ DbgIdle /\ WmIdle /\ RecIdle /\ LkIdle
SpecSpeed == InitSpeed /\ [][SpdNext]_vars

InitNextBus == NbInit /\ PfIdle /\ CmpIdle /\ MrgIdle /\ VehIdle /\ GcIdle /\ GeoIdle /\ SpdIdle /\ ShpIdle /\ SelIdle /\ TripIdle /\ DbgIdle /\ WmIdle /\ RecIdle /\ LkIdle
SpecNextBus == InitNextBus /\ [][NbNext]_vars

InitSlice == ShpInit /\ PfIdle /\ CmpIdle /\ MrgIdle /\ VehIdle /\ GcIdle /\ GeoIdle /\ SpdIdle /\ NbIdle /\ SelIdle /\ TripIdle /\ DbgIdle /\ WmIdle /\ RecIdle /\ LkIdle
SpecSlice == InitSlice /\ [][ShpNext]_vars

InitSelect == SelInit /\ PfIdle /\ CmpIdle /\ MrgIdle /\ VehIdle /\ GcIdle /\ GeoIdle /\ SpdIdle /\ NbIdle /\ ShpIdle /\ TripIdle /\ DbgIdle /\ WmIdle /\ RecIdle /\ LkIdle
SpecSelect == InitSelect /\ [][SelNext]_vars

InitTrip == TripInit /\ PfIdle /\ CmpIdle /\ MrgIdle /\ VehIdle /\ GcIdle /\ GeoIdle /\ SpdIdle /\ NbIdle /\ ShpIdle /\ SelIdle /\ DbgIdle /\ WmIdle /\ RecIdle /\ LkIdle
SpecTrip == InitTrip /\ [][TripNext]_vars

InitDebug == DbgInit /\ PfIdle /\ CmpIdle /\ MrgIdle /\ VehIdle /\ GcIdle /\ GeoIdle /\ SpdIdle /\ NbIdle /\ ShpIdle /\ SelIdle /\ TripIdle /\ WmIdle /\ RecIdle /\ LkIdle
SpecDebug == InitDebug /\ [][DbgNext]_vars

InitWalk == WmInit /\ PfIdle /\ CmpIdle /\ MrgIdle /\ VehIdle /\ GcIdle /\ GeoIdle /\ SpdIdle /\ NbIdle /\ ShpIdle /\ SelIdle /\ TripIdle /\ DbgIdle /\ RecIdle /\ LkIdle
SpecWalk == InitWalk /\ [][WmNext]_vars

InitReconcile == RecInit /\ PfIdle /\ CmpIdle /\ MrgIdle /\ VehIdle /\ GcIdle /\ GeoIdle /\ SpdIdle /\ NbIdle /\ ShpIdle /\ SelIdle /\ TripIdle /\ DbgIdle /\ WmIdle /\ LkIdle
SpecReconcile == InitReconcile /\ [][RecNext]_vars

InitMapping == LkInit /\ PfIdle /\ CmpIdle /\ MrgIdle /\ VehIdle /\ GcIdle /\ GeoIdle /\ SpdIdle /\ NbIdle /\ ShpIdle /\ SelIdle /\ TripIdle /\ DbgIdle /\ WmIdle /\ RecIdle
SpecMapping == InitMapping /\ [][LkNext]_vars

\* every thread that can take a step of its call eventually takes one: the
\* threads of the server's pool are all scheduled
SpecMappingFair ==
    InitMapping /\ [][LkNext]_vars /\ \A t \in MapThreads : WF_vars(ThreadRuns(t))

(***************************************************************************)
(* PathFinder claims                                                       *)
(***************************************************************************)

NoRepeatedStop(nodes) ==
    \A i, j \in DOMAIN nodes : i # j => nodes[i] # nodes[j]

\* number of positions where the route id of consecutive edges changes
RouteChanges(es) ==
    Cardinality({i \in 1..(Len(es) - 1) : es[i][3] # es[i + 1][3]})

RouteSeq(es) == [i \in DOMAIN es |-> es[i][3]]

\* C1: no stop id occurs twice within any path returned (or accepted so far)
\* by find_k_paths and find_k_paths_harvard.
C1_NoRepeatedStop ==
    \A i \in DOMAIN results : NoRepeatedStop(results[i].nodes)

\* C1 witness: a finished search returned a two-edge path although the middle
\* stop has an edge back to a stop already on the path.
C1_Witness ==
    /\ pf_pc = "done"
    /\ \E i \in DOMAIN results : Len(results[i].nodes) = 3
    /\ \E j \in DOMAIN graph["b"] : graph["b"][j].to \in {"a", "b"}

\* C2: in every returned path the number of route-id changes between
\* consecutive edges is at most max_transfers (for caps >= 0; the callers
\* pass 1).
C2_TransfersWithinCap ==
    \A i \in DOMAIN results : RouteChanges(results[i].edges) <= max_transfers

\* C2 witness: a search with cap 0 finished over a graph that holds a path
\* a -r-> b -r'-> c with r # r' (one transfer), and returned some path.
C2_Witness ==
    /\ pf_pc = "done"
    /\ dest = "c"
    /\ max_transfers = 0
    /\ \E i \in DOMAIN graph["a"], j \in DOMAIN graph["b"] :
          /\ graph["a"][i].to = "b" /\ graph["b"][j].to = "c"
          /\ graph["a"][i].route_id # graph["b"][j].route_id
    /\ Len(results) >= 1

\* C3: find_k_paths returns at most k paths.
C3_AtMostK ==
    pf_pc = "done" => Len(results) <= k

\* C4: when origin equals destination the search returns exactly one path,
\* with stop list [origin] and no edges.
C4_TrivialPath ==
    (pf_pc = "done" /\ origin = dest) =>
        results = << [nodes |-> <<origin>>, edges |-> <<>>] >>

\* C4 witness: a finished search with origin = destination over a graph with
\* edges leaving the origin and k = 2.
C4_Witness ==
    /\ pf_pc = "done"
    /\ origin = dest
    /\ k = 2
    /\ graph[origin] # <<>>

\* C5: the returned paths are pairwise distinct: no two have both the same
\* route-id sequence and the same stop-id sequence.
C5_PairwiseDistinct ==
    \A i, j \in DOMAIN results :
        i # j => ~(/\ results[i].nodes = results[j].nodes
                   /\ RouteSeq(results[i].edges) = RouteSeq(results[j].edges))

\* C5 witness: a finished search over a graph with a duplicate edge from the
\* origin to the destination, which it returned once.
C5_Witness ==
    /\ pf_pc = "done"
    /\ dest = "c"
    /\ \E i, j \in DOMAIN graph["a"] :
          i # j /\ graph["a"][i] = graph["a"][j] /\ graph["a"][i].to = "c"
    /\ Len(results) >= 1

(***************************************************************************)
(* SegmentCompressor claims                                                *)
(***************************************************************************)

StopRange(seg) == seg.start_stop_index .. seg.end_stop_index

\* The stop-index ranges of segs, in order, cover 0..n-1: the first starts at
\* 0, the last ends at n-1, each range is non-empty and each next range starts
\* at the boundary stop where the previous one ends (no gap, and no overlap
\* beyond that shared boundary stop).
CoversExactly(segs, n) ==
    /\ UNION {StopRange(segs[i]) : i \in DOMAIN segs} = 0..(n - 1)
    /\ \A i \in DOMAIN segs : segs[i].start_stop_index <= segs[i].end_stop_index
    /\ \A i \in 1..(Len(segs) - 1) :
          segs[i].end_stop_index = segs[i + 1].start_stop_index

\* C6 (as claimed): for any path, the segments of compress_path_by_route
\* exactly cover the stop indices 0..len(path)-1.
C6_CoversAnyPath ==
    cmp_pc = "done" => CoversExactly(segments, Len(path_stop_ids))

\* C6 (amended): for any path with at least one edge the segments exactly
\* cover 0..len(path)-1, each segment spanning at least one edge; a path
\* without edges yields no segment.
C6_CoversPathWithEdges ==
    cmp_pc = "done" =>
        IF edges = <<>> THEN segments = <<>>
        ELSE /\ CoversExactly(segments, Len(path_stop_ids))
             /\ \A i \in DOMAIN segments :
                   segments[i].start_stop_index < segments[i].end_stop_index

\* C6 witness: a finished compression of a four-edge path into three segments.
C6_Witness ==
    /\ cmp_pc = "done"
    /\ Len(edges) = 4
    /\ Len(segments) = 3

(***************************************************************************)
(* Display-merge claims                                                    *)
(***************************************************************************)

\* C7: display merge is idempotent: merging the merged list again returns the
\* same list (same segments, stop lists and end stops).
C7_MergeIdempotent ==
    mrg_pc = "done" => merged_twice = merged_once

\* C7 witness: both calls returned, the first one merged some segment into
\* its predecessor and left at least two segments.
C7_Witness ==
    /\ mrg_pc = "done"
    /\ Len(merged_once) < Len(display_segments)
    /\ Len(merged_once) >= 2

\* a step of the first call's loop that handles segment display_segments[seg_idx]
IsMergeIterStep == mrg_pc = "loop" /\ seg_idx' = seg_idx + 1

\* that step merged the segment into its predecessor (nothing was appended)
MergedIntoPredecessor == Len(merged') = Len(merged)

ClaimedMergeCondition(last, seg) ==
    /\ last.route_name # None /\ seg.route_name # None
    /\ last.route_name = seg.route_name
    /\ last.short_name # None /\ seg.short_name # None
    /\ last.short_name = seg.short_name
    /\ last.end_stop = seg.start_stop

ActualMergeCondition(last, seg) ==
    /\ last.route_name # None /\ seg.route_name # None
    /\ last.route_name = seg.route_name
    /\ last.short_name = seg.short_name
    /\ last.end_stop = seg.start_stop

\* C8 (as claimed): a segment is merged into its predecessor iff display name
\* and short name of both are non-null and equal and the predecessor's end
\* stop is the segment's start stop.
C8_MergeIffNonNullNames ==
    [][IsMergeIterStep =>
         (MergedIntoPredecessor <=>
            ClaimedMergeCondition(Last(merged), display_segments[seg_idx]))]_vars

\* C8 (amended): a segment is merged into its predecessor iff the display
\* names are non-null and equal, the short names are equal (two null short
\* names count as equal) and the predecessor's end stop is the segment's
\* start stop.
C8_MergeIffEqualNames ==
    [][IsMergeIterStep =>
         (MergedIntoPredecessor <=>
            ActualMergeCondition(Last(merged), display_segments[seg_idx]))]_vars

\* C8 witness: the first call merged two segments whose short names are null.
C8_Witness ==
    /\ mrg_pc = "returned"
    /\ Len(display_segments) = 2
    /\ Len(merged_once) = 1
    /\ \A i \in DOMAIN display_segments : display_segments[i].short_name = None

(***************************************************************************)
(* Vehicle-history and graph-cache claims                                  *)
(***************************************************************************)

\* no pass is between reading the history and storing it back
NoPassInProgress == \A p \in Passes : pass_pc[p] \in {"idle", "done"}

\* C9: the position history stored in VEHICLE_STATE for a (system, vehicle)
\* key holds at most 4 samples, under any interleaving of concurrent passes.
\* Stated for the states in which no pass is in the middle of its update, the
\* weakest reading of the claim; between a pass's append and its store the
\* stored list holds 5 samples even without any concurrency.
C9_HistoryAtMostFour ==
    NoPassInProgress =>
        \A key \in VehicleKeys : Len(History(key)) <= MAX_HISTORY

GraphsBuiltFor(sys) == {i \in DOMAIN graphs_built : graphs_built[i].system = sys}

\* C10: each route graph is built at most once per system, also under
\* concurrent first requests, and all callers of a system get the same graph.
C10_GraphBuiltOnce ==
    /\ \A sys \in Systems : Cardinality(GraphsBuiltFor(sys)) <= 1
    /\ \A c1, c2 \in Callers :
          (/\ call_pc[c1] = "done" /\ call_pc[c2] = "done"
           /\ call_system[c1] = call_system[c2])
          => call_result[c1] = call_result[c2]

(***************************************************************************)
(* Route-geometry memo claims                                              *)
(***************************************************************************)

\* C11: after any sequence of get_route_geometry calls ROUTE_GEOMETRY_CACHE
\* never holds more than 1,000 entries.
C11_AtMostThousandEntries ==
    Cardinality(ROUTE_GEOMETRY_CACHE) <= 1000

(***************************************************************************)
(* Speed smoothing claims                                                  *)
(***************************************************************************)

\* the pairs that qualify, as the claim words it: elapsed time over 0.1 s and
\* implied speed within [1, 20] m/s
QualifyingPairs ==
    {i \in 1..(Len(samples) - 1) :
        /\ PairDt(samples, i) > 1
        /\ PairDt(samples, i) <= 10 * PairDist(samples, i)
        /\ 10 * PairDist(samples, i) <= 20 * PairDt(samples, i)}

\* the distances (of_dist) or the elapsed times of the qualifying pairs among
\* the first n, summed
RECURSIVE QualifyingTotal(_, _)
QualifyingTotal(n, of_dist) ==
    IF n = 0 THEN 0
    ELSE QualifyingTotal(n - 1, of_dist)
         + (IF n \notin QualifyingPairs THEN 0
            ELSE IF of_dist THEN PairDist(samples, n) ELSE PairDt(samples, n))

QualifyingDist == QualifyingTotal(Len(samples) - 1, TRUE)
QualifyingDt == QualifyingTotal(Len(samples) - 1, FALSE)

\* C12: the speed used is (sum of the qualifying pairs' distances) / (sum of
\* their elapsed times) with source 'cache'; when no pair qualifies it is the
\* 5.0 m/s fallback with source 'fallback'.
C12_SmoothedSpeed ==
    spd_pc = "done" =>
        IF QualifyingPairs = {}
        THEN speed_ms = [num |-> 5, den |-> 1] /\ speed_source = "fallback"
        ELSE /\ speed_ms.den > 0
             /\ speed_ms.num * QualifyingDt = 10 * QualifyingDist * speed_ms.den
             /\ speed_source = "cache"

\* four samples: two qualifying pairs of different implied speeds and one
\* pair that does not qualify
C12_Witness ==
    /\ spd_pc = "done"
    /\ Cardinality(QualifyingPairs) = 2
    /\ Len(samples) = 4
    /\ speed_source = "cache"
    /\ \E i \in QualifyingPairs, j \in QualifyingPairs :
         PairDist(samples, i) * PairDt(samples, j) # PairDist(samples, j) * PairDt(samples, i)

(***************************************************************************)
(* Next-bus enrichment claims                                              *)
(***************************************************************************)

NearCandidates ==
    {i \in 1..Len(nb_candidates) :
        nb_candidates[i].has_coords /\ nb_candidates[i].straight <= 30}

\* C13: if a candidate vehicle is within 30 m straight-line of the boarding
\* stop, the payload reports distance_to_boarding_stop_m = 0, whatever the
\* chain projection gives for it or for another candidate.
C13_NearStopOverride ==
    (nb_pc = "returned" /\ NearCandidates # {}) =>
        /\ ~next_bus.is_none
        /\ next_bus.distance_to_boarding_stop_m = 0

\* a vehicle at 30 m whose projection gives 500 m, next to a vehicle farther
\* away whose projection gives 10 m
C13_Witness ==
    /\ nb_pc = "returned"
    /\ ~next_bus.is_none
    /\ next_bus.distance_to_boarding_stop_m = 0
    /\ \E i \in NearCandidates : nb_candidates[i].along = 500
    /\ \E j \in (1..Len(nb_candidates)) \ NearCandidates :
          nb_candidates[j].has_coords /\ nb_candidates[j].along = 10

\* C14: in every payload eta_to_boarding_stop_s = distance / speed, ride_eta_s =
\* (sum of inter-stop distances of the segment's stop list) / speed and
\* segment_eta_s is their sum; ride and segment ETA are null when the stop
\* list has fewer than 2 stops; the payload is null when no candidate has
\* coordinates.
C14_EtaFormulas ==
    nb_pc = "returned" =>
        IF \A i \in 1..Len(nb_candidates) : ~nb_candidates[i].has_coords
        THEN next_bus.is_none
        ELSE /\ ~next_bus.is_none
             /\ RatEq(next_bus.eta_to_boarding_stop_s,
                      Over(next_bus.distance_to_boarding_stop_m, next_bus.speed_ms))
             /\ next_bus.eta_to_boarding_stop_s.den # 0
             /\ IF Len(nb_route.stops) < 2
                THEN next_bus.ride_eta_s = NoEta /\ next_bus.segment_eta_s = NoEta
                ELSE /\ next_bus.ride_eta_s.den # 0
                     /\ RatEq(next_bus.ride_eta_s,
                              Over(SegDist(nb_route.stops, 1), next_bus.speed_ms))
                     /\ next_bus.segment_eta_s.den # 0
                     /\ RatEq(next_bus.segment_eta_s,
                              RatAdd(next_bus.eta_to_boarding_stop_s, next_bus.ride_eta_s))

(***************************************************************************)
(* Polyline slicing claims                                                 *)
(***************************************************************************)

\* the index of the shape point nearest to x (the first one among ties)
Nearest(x) ==
    CHOOSE i \in 1..Len(shape_coords) :
        /\ \A j \in 1..Len(shape_coords) :
              Abs(shape_coords[i] - x) <= Abs(shape_coords[j] - x)
        /\ \A j \in 1..(i - 1) :
              Abs(shape_coords[j] - x) > Abs(shape_coords[i] - x)

\* C15: the returned polyline has at least two points for every input,
\* including an empty or one-point shape and two stops that snap to the same
\* shape index; when slicing degenerates it is the two stop coordinates.
C15_AtLeastTwoPoints ==
    shp_pc = "done" =>
        /\ Len(sliced) >= 2
        /\ (Len(shape_coords) < 2 \/ Nearest(start_stop) = Nearest(end_stop))
              => sliced = <<start_stop, end_stop>>

RankedCategory(c) ==
    (IF c.has_live_bus THEN 0 ELSE 3)
    + (IF c.kind = "base_no_transfer" THEN 1
       ELSE IF c.kind = "walk_modified" THEN 2 ELSE 3)

\* C19: the returned candidate is of the best category present (live/no-transfer,
\* live/walk-modified, live/transfer, dead/no-transfer, dead/walk-modified,
\* dead/transfer) and has the least tie-break value within that category.
C19_BestCategoryThenTieBreak ==
    sel_pc = "done" =>
        /\ \E i \in 1..Len(candidates) : candidates[i] = selected
        /\ \A i \in 1..Len(candidates) :
              /\ RankedCategory(selected) <= RankedCategory(candidates[i])
              /\ RankedCategory(selected) = RankedCategory(candidates[i])
                    => TieBreaker(selected) <= TieBreaker(candidates[i])

(***************************************************************************)
(* Trip request claims                                                     *)
(***************************************************************************)

\* the skeletons enrichment has run on so far (returned or raised)
EnrichmentRanOn == {top_skeletons[i].id : i \in 1..(enrich_idx - 1)}

\* C17: enrichment runs on at most 3 skeletons and they are the lowest-score
\* ones: no skeleton left out scores strictly lower than an enriched one.
C17_TopThreeEnriched ==
    trip_pc \in {"enrich", "answered", "not_found", "error"} =>
        /\ Cardinality(EnrichmentRanOn) <= 3
        /\ \A i \in 1..Len(all_skeletons), j \in 1..Len(all_skeletons) :
              (all_skeletons[i].id \notin EnrichmentRanOn
               /\ all_skeletons[j].id \in EnrichmentRanOn)
                  => all_skeletons[i].score >= all_skeletons[j].score

\* four skeletons, three enriched, the one left out scoring strictly higher
C17_Witness ==
    /\ trip_pc = "answered"
    /\ Len(all_skeletons) = 4
    /\ Cardinality(EnrichmentRanOn) = 3
    /\ \E i \in 1..4 :
          /\ all_skeletons[i].id \notin EnrichmentRanOn
          /\ \A j \in 1..4 : j # i => all_skeletons[j].score < all_skeletons[i].score

\* C18: the transfer planner runs for the nearest stop pair only when the
\* direct planner found nothing: the skeleton set never holds both a
\* 'base_no_transfer' and a 'base_transfer' skeleton.
C18_DirectExcludesTransfer ==
    /\ (s_tx # <<>> => s_nt = <<>>)
    /\ ~ /\ \E i \in 1..Len(all_skeletons) : all_skeletons[i].kind = "base_no_transfer"
         /\ \E i \in 1..Len(all_skeletons) : all_skeletons[i].kind = "base_transfer"

\* an answered request whose direct planner found a skeleton: the transfer
\* planner was skipped and the walk-modified planner still contributed
C18_Witness ==
    /\ trip_pc = "answered"
    /\ s_nt # <<>>
    /\ s_tx = <<>>
    /\ \E i \in 1..Len(all_skeletons) : all_skeletons[i].kind = "base_no_transfer"
    /\ \E i \in 1..Len(all_skeletons) : all_skeletons[i].kind = "walk_modified"

\* the enriched forms of the top skeletons whose enrichment did not raise
RECURSIVE Survivors(_)
Survivors(n) ==
    IF n = 0 THEN <<>>
    ELSE IF top_skeletons[n].id \in raised THEN Survivors(n - 1)
    ELSE Append(Survivors(n - 1), Enriched(top_skeletons[n]))

\* C20: a skeleton whose enrichment raises is dropped and the request answers
\* with the best of the remaining enriched candidates; it fails (not found)
\* only if every top skeleton's enrichment raised.
C20_PartialFailureDegrades ==
    (trip_pc \in {"answered", "not_found", "error"} /\ top_skeletons # <<>>) =>
        IF \A i \in 1..Len(top_skeletons) : top_skeletons[i].id \in raised
        THEN trip_pc = "not_found"
        ELSE /\ trip_pc = "answered"
             /\ enriched_candidates = Survivors(Len(top_skeletons))
             /\ best_candidate = select_best_candidate(Survivors(Len(top_skeletons)))

\* three top skeletons, the lowest-score one raised, the request answered
C20_Witness ==
    /\ trip_pc = "answered"
    /\ Len(top_skeletons) = 3
    /\ raised = {top_skeletons[1].id}
    /\ Len(enriched_candidates) = 2

(***************************************************************************)
(* PathFinder claims, continued                                            *)
(***************************************************************************)

\* C26: every returned path has at most max_depth edges (at most
\* max_depth + 1 stops).
C26_DepthCap ==
    \A i \in DOMAIN results :
        /\ Len(results[i].edges) <= max_depth
        /\ Len(results[i].nodes) <= max_depth + 1

(***************************************************************************)
(* Vehicle history claims, continued                                       *)
(***************************************************************************)

\* C24: when the concurrent passes have all completed, the stored history of
\* each pass's key holds the sample that pass appended (the passes are too
\* few for the 4-entry cap to displace one of their samples).
C24_NoSampleLost ==
    (\A p \in Passes : pass_pc[p] = "done") =>
        \A p \in Passes :
            \E i \in 1..Len(History(pass_key[p])) : History(pass_key[p])[i].by = p

(***************************************************************************)
(* Next-bus enrichment claims, continued                                   *)
(***************************************************************************)

\* C23: within one request a lookup of a (route key, boarding stop id) pair
\* that was looked up before returns the first result, without recomputation
\* and without a new history sample, also when the first result was 'no
\* vehicle'.
C23_MemoisedLookup ==
    (nb_pc = "returned" /\ nb_trace.repeated) =>
        /\ next_bus = nb_trace.first[nb_route.key]
        /\ ~nb_trace.recomputed
        /\ ~nb_trace.appended


\* C27: every TripSkeleton the direct, one-transfer and walk-modified planners
\* produce has at least one segment, and so has the trip a successful request
\* returns, also when origin and destination snap to the same stop.
C27_AtLeastOneSegment ==
    /\ \A i \in DOMAIN s_nt : s_nt[i].num_segments >= 1
    /\ \A i \in DOMAIN s_tx : s_tx[i].num_segments >= 1
    /\ \A i \in DOMAIN all_skeletons : all_skeletons[i].num_segments >= 1
    /\ trip_pc = "answered" => Len(best_candidate.segments) >= 1

\* the skeletons the pruning left out: all_skeletons is sorted, the first
\* TOP_K are kept
Discarded == {i \in DOMAIN all_skeletons : i > TOP_K}

\* C29: pruning to the 3 lowest scores never discards a skeleton whose
\* category is strictly better than that of the selected trip (stated for
\* the requests where every enrichment succeeded).
C29_PruningKeepsBestCategory ==
    (trip_pc = "answered" /\ raised = {}) =>
        \A i \in Discarded :
            Category(Enriched(all_skeletons[i])) >= Category(best_candidate)

\* the stops and segments of a response: which skeleton, which routes
Outcome(debug) ==
    IF dbg_pc[debug] = "answered"
    THEN [status |-> 200, skeleton |-> dbg_answer[debug].id, routes |-> dbg_answer[debug].routes]
    ELSE [status |-> 404, skeleton |-> 0, routes |-> <<>>]

\* C30: for the same inputs and vehicle snapshot the request with debug=true
\* succeeds exactly when the request with debug=false succeeds, and returns
\* the same stops and segments.
C30_DebugSameOutcome ==
    (\A f \in BOOLEAN : dbg_pc[f] \in {"answered", "not_found"}) =>
        Outcome(TRUE) = Outcome(FALSE)

\* C22: plan_walk_modified_trip evaluates at most 10 pairs drawn from at
\* most 5 nearby stops at each end, and for every evaluated pair it produces
\* transfer skeletons only if direct planning for that pair produced none.
C22_WalkPairsBounded ==
    /\ pairs_tried <= 10
    /\ wm_pair.o <= 5 /\ wm_pair.d <= 5
    /\ wm_pair.o <= origin_near /\ wm_pair.d <= dest_near
    /\ wm_pair.transfer > 0 => wm_pair.direct = 0

\* C22 witness: more than 10 pairs of nearby stops exist (more than 5 stops
\* near the origin), the call returned at the cap after 10 pairs, and the
\* last pair evaluated got a transfer skeleton.
C22_Witness ==
    /\ wm_pc = "returned"
    /\ origin_near > 5
    /\ Candidates(origin_near) * Candidates(dest_near) > 10
    /\ pairs_tried = 10
    /\ wm_pair.transfer = 1

\* the schedule-feed stops within the match radius of the stop mapped last
InRadius ==
    {g \in DOMAIN gtfs_feed : StopDistance(p_stop, gtfs_feed[g]) <= 100}

\* the result is a nearest stop of the set
NearestOf(stop_ids) ==
    /\ gtfs_id \in stop_ids
    /\ \A g \in stop_ids :
         StopDistance(p_stop, gtfs_feed[gtfs_id]) <= StopDistance(p_stop, gtfs_feed[g])

\* the contract of the mapping, given the in-radius stops that name-match
MatchContract(matching) ==
    IF InRadius = {} THEN gtfs_id = 0
    ELSE IF matching # {} THEN NearestOf(matching)
    ELSE NearestOf(InRadius)

\* case-insensitive substring in either direction, names as they are
SubstringMatching ==
    {g \in InRadius :
        \/ IsSubstring(Lower(p_stop.name), Lower(gtfs_feed[g].stop_name))
        \/ IsSubstring(Lower(gtfs_feed[g].stop_name), Lower(p_stop.name))}

\* the same on names without surrounding whitespace
TrimmedMatching ==
    {g \in InRadius :
        \/ IsSubstring(Strip(Lower(p_stop.name)), Strip(Lower(gtfs_feed[g].stop_name)))
        \/ IsSubstring(Strip(Lower(gtfs_feed[g].stop_name)), Strip(Lower(p_stop.name)))}

C28_MutualInverses ==
    rec_pc = "done" =>
        \A p \in DOMAIN passio_to_gtfs :
            passio_to_gtfs[p] # 0 => gtfs_to_passio[passio_to_gtfs[p]] = p

\* C25: every call of get_gtfs_to_passio_map with a stop list eventually
\* returns, whatever the order of first calls, also when it is the first
\* mapping function called in the process.
C25_ReverseCallReturns ==
    \A t \in MapThreads : (map_pc[t] = "r_check") ~> (map_pc[t] = "returned")

====
